---- MODULE Spec2Model ----
(***************************************************************************)
(* Device-connectivity subsystem of the warehouse manager:                 *)
(* app/services/rfid_listener.py.  Push (WebSocket) and poll (HTTP)        *)
(* reader listeners, the registry active_listeners and the supervisor      *)
(* monitor_listeners.                                                      *)
(*                                                                         *)
(* Durations are integers in units of 1/Scale time units, so that the      *)
(* push listener's delays 1.5^n are exact, as they are in binary floating  *)
(* point.                                                                  *)
(***************************************************************************)
EXTENDS Integers, Sequences, FiniteSets, TLC

VARIABLES
    config,            \* current_app.config: RFID_READERS, RFID_READER_API_URL, FLASK_ENV,
                       \* ALERT_WEBHOOK_URL
    lst,               \* every listener object ever constructed, by identity
    active_listeners,  \* the module-level dict, in insertion order
    mon,               \* the RFID-Monitor threads
    alerts,            \* the alerts send_alert has emitted
    webhook,           \* what send_alert posted to ALERT_WEBHOOK_URL and what it failed to
    startCalls,        \* external calls of start_rfid_reader_listener so far
    shutdown,          \* the process is exiting: stop_all_rfid_listeners was called
    stopper,           \* the frame of stop_all_rfid_listeners: its dict iterator
    opcua,             \* the callers of read_opcua_value / write_opcua_value and the PLC
    tracking,          \* the committed rows of rfid_tracking
    calls              \* the calls of process_rfid_scan in progress, each with its session

rfidVars ==
    <<config, lst, active_listeners, mon, alerts, webhook, startCalls, shutdown,
      stopper>>

otherVars == <<opcua, tracking, calls>>

vars == <<rfidVars, otherVars>>

----------------------------------------------------------------------------
(* Bounds of the exploration *)

MaxListeners == 2      \* listener objects constructed in one behaviour
MaxMonitors == 1       \* monitor threads tracked
MaxStartCalls == 2     \* external start_rfid_reader_listener calls
MaxAttempts == 13      \* push reconnect cycles without an open (SpecPush)
SysMaxAttempts == 1    \* the same, in the whole-system specification
MaxErrors == 3         \* error events per listener (SpecPush, SpecPoll)
SysMaxErrors == 1      \* the same, in the whole-system specification
MaxScanId == 2         \* scan identifiers 0..MaxScanId
MaxScans == 2          \* scan records in one poll response
MaxMonErrors == 1      \* exceptions one monitor thread catches
MaxStopCalls == 2      \* calls of stop_all_rfid_listeners
MaxCallers == 2        \* concurrent callers of process_rfid_scan
MaxBatches == 2        \* calls of process_rfid_scan in one behaviour
MaxTags == 3           \* tags in one batch
MaxOps == 2            \* calls of read_opcua_value / write_opcua_value
MaxStatusCalls == 1    \* requests of /opcua/status
MaxFrames == 3         \* frames or poll responses a listener handles
RecursionLimit == 3    \* nested reconnects the stack has room for (SpecReconnect)
MaxThreads == 2        \* processing threads the listeners start

(* Program constants *)

Scale == 2 ^ 10
DelayFloor == 1 * Scale
MaxReconnectDelay == 60 * Scale
DefaultPollInterval == 2 * Scale
BackoffCap == 10 * Scale
ErrThreshold == 50
InactivityThreshold == 1800
MonitorGrace == 10
MonitorCadence == 30
MonitorRestartWait == 1
MonitorBackoff == 60
OpcuaRetries == 3
OpcuaDelay == 2
None == -1

Min(a, b) == IF a <= b THEN a ELSE b

----------------------------------------------------------------------------
(* Inputs *)

Readers == {"entrance", "exit", "shelf", "default"}
Tags == {"T1", "T2"}
TagLists == {<<>>, <<"T1">>, <<"T1", "T2">>}
ScanIds == 0 .. MaxScanId
ScanRecords == [scan_id : ScanIds \cup {None}, rfid_tags : {<<>>, <<"T1">>}]
Responses == UNION {[1 .. n -> ScanRecords] : n \in 0 .. MaxScans}
PollIntervals == {1 * Scale, 2 * Scale, 6 * Scale}

ListenerIds == 1 .. MaxListeners
MonitorIds == 1 .. MaxMonitors

(* Python truthiness of a scan identifier: None and 0 are falsy *)
Truthy(x) == x # None /\ x # 0

----------------------------------------------------------------------------
(* Listener objects *)

NoListener ==
    [kind |-> "none", reader |-> "none", pc |-> "none", running |-> FALSE,
     connected |-> FALSE, ws |-> FALSE, reconnect_delay |-> 0,
     reconnect_attempts |-> 0, error_count |-> 0, poll_interval |-> 0,
     last_scan_id |-> None, sleep |-> 0, waits |-> <<>>,
     lastPoll |-> "none", resp |-> <<>>, disp |-> <<>>, depth |-> 0]

(* RFIDReaderListener.__init__; the thread is started right away *)
NewPush(r) ==
    [NoListener EXCEPT !.kind = "push", !.reader = r, !.pc = "started",
                       !.reconnect_delay = DelayFloor]

(* the poll listener that ignores the interval it is given *)
NewPoll_mut(r, interval) ==
    [NoListener EXCEPT !.kind = "poll", !.reader = r, !.pc = "started",
                       !.poll_interval = 2 * 2 ^ 10]

(* RFIDPollingListener.__init__; the thread is started right away *)
NewPoll(r, interval) ==
    [NoListener EXCEPT !.kind = "poll", !.reader = r, !.pc = "started",
                       !.poll_interval = interval]

(* threading.Thread.is_alive *)
is_alive(rec) == rec.pc \notin {"none", "dead"}

----------------------------------------------------------------------------
(* Push listener: RFIDReaderListener.  Positions of its thread:             *)
(*   started  start() returned, run() has not begun                         *)
(*   dialing  inside ws.run_forever(), handshake in progress                *)
(*   open     inside ws.run_forever(), after on_open                        *)
(*   closing  the transport is closed, on_close has not run yet             *)
(*   wait     inside on_close, in time.sleep(self.reconnect_delay)          *)
(*   dead     run() has returned                                            *)
(* depth is the number of on_close calls on the thread's stack: the        *)
(* run_forever that on_close starts runs inside the on_close that the      *)
(* teardown of the run_forever before it called.                           *)

Frames ==
    [kind : {"scan"}, rfid_tags : TagLists]
        \cup [kind : {"status", "error", "malformed", "nondict", "other"},
              rfid_tags : {<<>>}]

(* run(): running = True, then connect(); connect_ok is whether the      *)
(* WebSocketApp could be constructed                                      *)
push_run(rec, connect_ok) ==
    IF connect_ok
    THEN [rec EXCEPT !.running = TRUE, !.ws = TRUE, !.pc = "dialing"]
    ELSE [rec EXCEPT !.running = TRUE, !.error_count = @ + 1, !.pc = "dead"]

(* on_open without the reset of reconnect_attempts *)
on_open_mut(rec) ==
    [rec EXCEPT !.reconnect_delay = DelayFloor,
                !.connected = TRUE, !.waits = <<>>, !.pc = "open"]

on_open(rec) ==
    [rec EXCEPT !.reconnect_delay = DelayFloor, !.reconnect_attempts = 0,
                !.connected = TRUE, !.waits = <<>>, !.pc = "open"]

(* on_message, for n identical frames in a row *)
(* the handler that gives up the connection on a frame it cannot decode *)
on_message_mut(rec, frame, n) ==
    CASE frame.kind = "scan" /\ frame.rfid_tags # <<>> ->
            [rec EXCEPT !.disp = <<[scan_id |-> None, before |-> None,
                                    tags |-> frame.rfid_tags]>>]
      [] frame.kind \in {"error", "nondict"} ->
            [rec EXCEPT !.error_count = @ + n]
      [] frame.kind = "malformed" ->
            [rec EXCEPT !.error_count = @ + n, !.connected = FALSE,
                        !.pc = "closing"]
      [] OTHER -> rec

on_message(rec, frame, n) ==
    CASE frame.kind = "scan" /\ frame.rfid_tags # <<>> ->
            [rec EXCEPT !.disp = <<[scan_id |-> None, before |-> None,
                                    tags |-> frame.rfid_tags]>>]
      [] frame.kind \in {"error", "malformed", "nondict"} ->
            [rec EXCEPT !.error_count = @ + n]
      [] OTHER -> rec

on_error(rec) ==
    [rec EXCEPT !.error_count = @ + 1, !.connected = FALSE]

(* on_close without the test of self.running *)
on_close_mut(rec) ==
    [rec EXCEPT !.connected = FALSE,
                !.reconnect_attempts = @ + 1,
                !.sleep = rec.reconnect_delay,
                !.waits = Append(@, rec.reconnect_delay),
                !.pc = "wait"]

(* on_close up to its time.sleep: the running test, the counter, the sleep; *)
(* waits records the sleeps taken since the last on_open                    *)
on_close(rec) ==
    IF rec.running
    THEN [rec EXCEPT !.connected = FALSE,
                     !.reconnect_attempts = @ + 1,
                     !.sleep = rec.reconnect_delay,
                     !.waits = Append(@, rec.reconnect_delay),
                     !.pc = "wait"]
    ELSE [rec EXCEPT !.connected = FALSE, !.pc = "dead", !.depth = 0]

(* the backoff without its ceiling *)
next_delay_mut(d) == (d * 3) \div 2

(* min(reconnect_delay * 1.5, max_reconnect_delay): (d * 3) \div 2 is *)
(* exact whenever the product is below the ceiling                     *)

next_delay(d) == Min((d * 3) \div 2, MaxReconnectDelay)

(* on_close after its time.sleep: the backoff, connect(), run_forever();  *)
(* when connect() fails self.ws is still the old app and is run again.    *)
(* run_forever is called inside on_close, one level deeper each cycle;    *)
(* limit is the number of levels the interpreter's stack has room for (0: *)
(* the exploration does not follow the stack).  At the limit the call     *)
(* raises RecursionError, the callbacks return one after the other and    *)
(* run() ends                                                             *)
on_close_wake(rec, connect_ok, limit) ==
    LET r == [rec EXCEPT !.reconnect_delay = next_delay(@),
                         !.error_count = IF connect_ok THEN @ ELSE @ + 1,
                         !.ws = TRUE, !.sleep = 0]
    IN  IF limit = 0
        THEN [r EXCEPT !.pc = "dialing"]
        ELSE IF rec.depth < limit
        THEN [r EXCEPT !.pc = "dialing", !.depth = @ + 1]
        ELSE [r EXCEPT !.pc = "dead", !.depth = 0]

(* stop(): running = False and, if there is a ws, ws.close(), which ends  *)
(* a run_forever in progress                                              *)
push_stop(rec) ==
    [rec EXCEPT !.running = FALSE,
                !.pc = IF rec.ws /\ rec.pc \in {"dialing", "open"}
                       THEN "closing" ELSE @]

----------------------------------------------------------------------------
(* Poll listener: RFIDPollingListener.  Positions of its thread:            *)
(*   started  start() returned, run() has not begun                         *)
(*   polling  inside _poll_reader, the request in flight                    *)
(*   sleep    in time.sleep(self.poll_interval)                             *)
(*   backoff  in time.sleep(backoff_time)                                   *)
(*   dead     run() has returned                                            *)

PollOutcomes ==
    [kind : {"ok"}, scans : Responses]
        \cup [kind : {"http_error", "request_error", "exception"},
              scans : {<<>>}]

backoff_time(interval) == Min(interval * 2, BackoffCap)

(* the for loop over the scans of a 200 response: the cursor, and the     *)
(* tag lists handed to processing threads with the cursor seen before     *)
RECURSIVE scan_loop(_, _, _, _)
scan_loop(cur, scans, i, disp) ==
    IF i > Len(scans)
    THEN [last_scan_id |-> cur, disp |-> disp]
    ELSE LET scan_id == scans[i].scan_id
             rfid_tags == scans[i].rfid_tags
             cur2 == IF Truthy(scan_id) /\ (~Truthy(cur) \/ scan_id > cur)
                     THEN scan_id ELSE cur
             disp2 == IF rfid_tags # <<>>
                      THEN Append(disp, [scan_id |-> scan_id, before |-> cur,
                                         tags |-> rfid_tags])
                      ELSE disp
         IN  scan_loop(cur2, scans, i + 1, disp2)

(* _poll_reader: what it leaves in the object when it returns normally *)
poll_reader(rec, out) ==
    CASE out.kind = "ok" ->
            LET r == scan_loop(rec.last_scan_id, out.scans, 1, <<>>)
            IN  [rec EXCEPT !.last_scan_id = r.last_scan_id, !.disp = r.disp]
      [] out.kind \in {"http_error", "request_error"} ->
            [rec EXCEPT !.error_count = @ + 1, !.disp = <<>>]
      [] OTHER -> [rec EXCEPT !.disp = <<>>]

(* whether _poll_reader raises: only what is not a RequestException *)
poll_raises(out) == out.kind = "exception"

(* one iteration of run()'s loop, from the response to the sleep;      *)
(* lastPoll and resp record what the request returned                  *)
poll_iteration(rec, out) ==
    IF ~poll_raises(out)
    THEN [poll_reader(rec, out) EXCEPT !.connected = TRUE,
                                       !.sleep = rec.poll_interval,
                                       !.lastPoll = out.kind,
                                       !.resp = out.scans, !.pc = "sleep"]
    ELSE [poll_reader(rec, out) EXCEPT !.connected = FALSE,
                                       !.error_count = @ + 1,
                                       !.sleep = backoff_time(rec.poll_interval),
                                       !.lastPoll = out.kind,
                                       !.resp = out.scans, !.pc = "backoff"]

(* time.sleep returns, reconnect_attempts after a backoff, and the test *)
(* of while self.running                                                *)
poll_wake(rec) ==
    [rec EXCEPT !.reconnect_attempts = IF rec.pc = "backoff" THEN @ + 1 ELSE @,
                !.sleep = 0,
                !.pc = IF rec.running THEN "polling" ELSE "dead"]

poll_stop(rec) == [rec EXCEPT !.running = FALSE]

(* stop() of a push listener whose ws.close() raises: running is False *)
(* already, and WebSocketApp.close() has cleared keep_running before   *)
(* the socket close that raised, so a run_forever in progress ends     *)
stop_raises(rec) == push_stop(rec)

(* whether stop() can raise: only ws.close() can *)
can_raise(rec) == rec.kind = "push" /\ rec.ws

stop(rec) == IF rec.kind = "push" THEN push_stop(rec) ELSE poll_stop(rec)

----------------------------------------------------------------------------
(* Configuration.  RFID_READERS is a dict, kept in insertion order; a      *)
(* url is "ws" (ws:// or wss://), "http" (anything else) or "none"; a      *)
(* polling_interval of None is an absent key.                              *)

ReaderCfg(id, url, interval) ==
    [id |-> id, url |-> url, polling_interval |-> interval]

Cfg(readers, default_url, env) ==
    [RFID_READERS |-> readers, RFID_READER_API_URL |-> default_url,
     FLASK_ENV |-> env, ALERT_WEBHOOK_URL |-> "none"]

Envs == {"production", "development"}

SysConfigs ==
    {Cfg(<<ReaderCfg("entrance", "ws", None), ReaderCfg("shelf", "http", Scale)>>,
         "none", "production"),
     Cfg(<<ReaderCfg("shelf", "http", Scale)>>, "none", "development"),
     Cfg(<<>>, "ws", "production")}

PushConfigs ==
    {Cfg(<<ReaderCfg("entrance", "ws", None)>>, "none", "development")}

PollConfigs ==
    {Cfg(<<ReaderCfg("shelf", "http", i)>>, "none", "development") :
        i \in PollIntervals \cup {None}}

(* start_rfid_reader_listener, lines 321-334: the readers it works from *)
readers_config(cfg) ==
    IF cfg.RFID_READERS # <<>>
    THEN cfg.RFID_READERS
    ELSE IF cfg.RFID_READER_API_URL # "none"
         THEN <<ReaderCfg("default", cfg.RFID_READER_API_URL, None)>>
         ELSE <<>>

(* reader_id in current_app.config.get('RFID_READERS', {}) *)
in_RFID_READERS(cfg, r) ==
    \E i \in DOMAIN cfg.RFID_READERS : cfg.RFID_READERS[i].id = r

----------------------------------------------------------------------------
(* The dict active_listeners: a sequence of [reader, lid] in insertion order *)

RegHas(reg, r) == \E i \in DOMAIN reg : reg[i].reader = r

RegGet(reg, r) == reg[CHOOSE i \in DOMAIN reg : reg[i].reader = r].lid

RegPop(reg, r) == SelectSeq(reg, LAMBDA e : e.reader # r)

RegSet(reg, r, l) ==
    IF RegHas(reg, r)
    THEN [i \in DOMAIN reg |->
            IF reg[i].reader = r THEN [reader |-> r, lid |-> l] ELSE reg[i]]
    ELSE Append(reg, [reader |-> r, lid |-> l])

RegIds(reg) == {reg[i].lid : i \in DOMAIN reg}

Allocated(L) == Cardinality({l \in ListenerIds : L[l].kind # "none"})

----------------------------------------------------------------------------
(* Monitor threads *)

(* Positions of a monitor thread:                                          *)
(*   grace    in time.sleep(10)                                            *)
(*   iter     in the for loop, at entry i of the snapshot; past the last   *)
(*            entry, in time.sleep(30)                                     *)
(*   wait     in time.sleep(1), between stop/pop and the restart           *)
(*   backoff  in the except branch, in time.sleep(60)                      *)
(* status is the result of the last listener.get_status(), errors counts   *)
(* the exceptions the thread has caught.  mon[0] is no thread: its field   *)
(* untracked counts the monitor threads started while every thread of      *)
(* MonitorIds was in use.                                                  *)

NoStatus == [error_count |-> 0, inactivity_seconds |-> 0]

NoMonitor ==
    [pc |-> "none", snap |-> <<>>, i |-> 0, status |-> NoStatus, errors |-> 0,
     untracked |-> 0]

NoMonitors == [m \in 0 .. MaxMonitors |-> NoMonitor]

(* what now - last_activity can be when get_status reads the clock *)
Inactivity == {InactivityThreshold, InactivityThreshold + 1}

(* get_status(): the fields the monitor reads *)
get_status(rec, inactivity) ==
    [error_count |-> rec.error_count, inactivity_seconds |-> inactivity]

(* the threshold test with >= in place of > *)
excessive_errors_mut(status) == status.error_count >= ErrThreshold

(* status.get('error_count', 0) > 50 *)
excessive_errors(status) == status.error_count > ErrThreshold

(* the threshold test against the wrong bound *)
inactive_mut(status) == status.inactivity_seconds > InactivityThreshold + 1

(* status.get('inactivity_seconds', 0) > 1800 *)
inactive(status) == status.inactivity_seconds > InactivityThreshold

(* an exception that is not caught ends the thread *)
monitor_except_mut(rec) ==
    [rec EXCEPT !.pc = "dead", !.errors = @ + 1]

(* except Exception: log, then time.sleep(60) *)
monitor_except(rec) ==
    [rec EXCEPT !.pc = "backoff", !.errors = @ + 1]

(* the time.sleep a monitor thread is in *)
monitor_sleep(rec) ==
    CASE rec.pc = "grace" -> MonitorGrace
      [] rec.pc = "wait" -> MonitorRestartWait
      [] rec.pc = "backoff" -> MonitorBackoff
      [] rec.pc = "iter" /\ rec.i > Len(rec.snap) -> MonitorCadence
      [] OTHER -> 0

(* the alert sink: the messages posted to ALERT_WEBHOOK_URL and the     *)
(* messages whose delivery failed ('Failed to send alert' in the log)  *)
NoWebhook == [posts |-> {}, failed |-> {}]

(* send_alert without the try around the delivery *)
send_alert_mut(al, wh, message, cfg, ctx_ok, post_ok) ==
    [alerts |-> al \cup {message},
     webhook |-> IF ctx_ok /\ cfg.ALERT_WEBHOOK_URL # "none" /\ post_ok
                 THEN [wh EXCEPT !.posts = @ \cup {message}]
                 ELSE wh,
     raised |-> ~ctx_ok \/ (cfg.ALERT_WEBHOOK_URL # "none" /\ ~post_ok)]

(* send_alert(message): logging.critical, then inside the try the lookup *)
(* of ALERT_WEBHOOK_URL in current_app.config (raises when ctx_ok is     *)
(* FALSE) and, if it is set, requests.post (raises when post_ok is       *)
(* FALSE); except Exception logs the failure and the function returns    *)
send_alert(al, wh, message, cfg, ctx_ok, post_ok) ==
    [alerts |-> al \cup {message},
     webhook |-> IF ~ctx_ok
                 THEN [wh EXCEPT !.failed = @ \cup {message}]
                 ELSE IF cfg.ALERT_WEBHOOK_URL = "none"
                 THEN wh
                 ELSE IF post_ok
                 THEN [wh EXCEPT !.posts = @ \cup {message}]
                 ELSE [wh EXCEPT !.failed = @ \cup {message}],
     raised |-> FALSE]

(* threading.Thread(target=monitor_listeners).start(): the thread begins  *)
(* in its time.sleep(10); threads beyond MaxMonitors are counted, and     *)
(* their steps not followed                                               *)
spawn_monitor(M) ==
    IF \E m \in MonitorIds : M[m].pc = "none"
    THEN LET m == CHOOSE k \in MonitorIds :
                      M[k].pc = "none" /\ \A j \in 1 .. k - 1 : M[j].pc # "none"
         IN  [M EXCEPT ![m] = [NoMonitor EXCEPT !.pc = "grace"]]
    ELSE [M EXCEPT ![0].untracked = @ + 1]

(* the loop of start_rfid_reader_listener over the configured readers;   *)
(* ok is FALSE when the exploration has no listener object left          *)
RECURSIVE start_loop(_, _, _, _)
start_loop(L, reg, rc, i) ==
    IF i > Len(rc)
    THEN [lst |-> L, reg |-> reg, ok |-> TRUE]
    ELSE LET c == rc[i]
         IN  IF c.url = "none"
             THEN start_loop(L, reg, rc, i + 1)
             ELSE IF RegHas(reg, c.id) /\ is_alive(L[RegGet(reg, c.id)])
             THEN start_loop(L, reg, rc, i + 1)
             ELSE IF Allocated(L) >= MaxListeners
             THEN [lst |-> L, reg |-> reg, ok |-> FALSE]
             ELSE LET l == Allocated(L) + 1
                      new == IF c.url = "ws"
                             THEN NewPush(c.id)
                             ELSE NewPoll(c.id,
                                          IF c.polling_interval = None
                                          THEN DefaultPollInterval
                                          ELSE c.polling_interval)
                  IN  start_loop([L EXCEPT ![l] = new],
                                 RegSet(reg, c.id, l), rc, i + 1)

(* start_rfid_reader_listener: the listeners, the registry, the monitors *)
start_rfid_reader_listener(L, reg, M, cfg) ==
    LET r == start_loop(L, reg, readers_config(cfg), 1)
    IN  [lst |-> r.lst, reg |-> r.reg, ok |-> r.ok,
         mon |-> IF r.reg # <<>> /\ cfg.FLASK_ENV = "production"
                 THEN spawn_monitor(M) ELSE M]

----------------------------------------------------------------------------
(* stop_all_rfid_listeners.  Its for loop iterates the dict itself: the    *)
(* iterator remembers the size of the dict at its creation and next()      *)
(* raises RuntimeError when the size has changed; a dict of unchanged size *)
(* is walked by position.  While the loop runs, reg0 is the dict at the    *)
(* creation of the iterator and seen the listeners stop() was called on.   *)

NoStopper == [pc |-> "idle", reg0 |-> <<>>, i |-> 0, seen |-> {}, calls |-> 0]

stop_all_begin(st, reg) ==
    [pc |-> "iter", reg0 |-> reg, i |-> 0, seen |-> {}, calls |-> st.calls + 1]

(* the loop that stops at the first listener *)
stop_all_next_mut(st, reg, L, ok) ==
    IF Len(reg) # Len(st.reg0)
    THEN [stopper |-> [NoStopper EXCEPT !.pc = "raised", !.calls = st.calls],
          reg |-> reg, lst |-> L]
    ELSE IF st.i < Len(reg) /\ st.i < 1
    THEN LET l == reg[st.i + 1].lid
         IN  [stopper |-> [st EXCEPT !.i = @ + 1, !.seen = @ \cup {l}],
              reg |-> reg,
              lst |-> [L EXCEPT ![l] = IF ok THEN stop(@) ELSE stop_raises(@)]]
    ELSE [stopper |-> [NoStopper EXCEPT !.pc = "done", !.calls = st.calls],
          reg |-> <<>>, lst |-> L]

(* ok is whether listener.stop() returns; its exception is caught and *)
(* the loop goes on                                                    *)
stop_all_next(st, reg, L, ok) ==
    IF Len(reg) # Len(st.reg0)
    THEN [stopper |-> [NoStopper EXCEPT !.pc = "raised", !.calls = st.calls],
          reg |-> reg, lst |-> L]
    ELSE IF st.i < Len(reg)
    THEN LET l == reg[st.i + 1].lid
         IN  [stopper |-> [st EXCEPT !.i = @ + 1, !.seen = @ \cup {l}],
              reg |-> reg,
              lst |-> [L EXCEPT ![l] = IF ok THEN stop(@) ELSE stop_raises(@)]]
    ELSE [stopper |-> [NoStopper EXCEPT !.pc = "done", !.calls = st.calls],
          reg |-> <<>>, lst |-> L]

----------------------------------------------------------------------------
(* What each specification explores: reconnect cycles, error events, the   *)
(* lengths of runs of identical error frames, the frames and the poll      *)
(* outcomes the readers produce.                                           *)

SysB ==
    [att |-> SysMaxAttempts, err |-> SysMaxErrors,
     runs |-> {ErrThreshold, ErrThreshold + 1},
     frames |-> {f \in Frames : f.kind = "error"},
     outs |-> {o \in PollOutcomes : o.scans = <<>>}, stack |-> 0]

PushB ==
    [att |-> MaxAttempts, err |-> MaxAttempts + MaxErrors, runs |-> {1},
     frames |-> Frames, outs |-> {}, stack |-> 0]

PollB ==
    [att |-> MaxErrors, err |-> MaxErrors, runs |-> {1},
     frames |-> {}, outs |-> PollOutcomes, stack |-> 0]

SetListener(l, rec) ==
    /\ lst' = [lst EXCEPT ![l] = rec]
    /\ UNCHANGED <<config, active_listeners, mon, alerts, webhook, startCalls, shutdown, stopper, otherVars>>

----------------------------------------------------------------------------
(* Steps of a push listener's thread *)

PushRun(l) ==
    /\ lst[l].kind = "push" /\ lst[l].pc = "started"
    /\ SetListener(l, push_run(lst[l], TRUE))

(* connect() catches an exception and returns False: run() ends *)
PushRunConnectFail(l, B) ==
    /\ lst[l].kind = "push" /\ lst[l].pc = "started"
    /\ lst[l].error_count < B.err
    /\ SetListener(l, push_run(lst[l], FALSE))

(* the handshake succeeds: run_forever calls on_open *)
DialOk(l) ==
    /\ lst[l].kind = "push" /\ lst[l].pc = "dialing"
    /\ SetListener(l, on_open(lst[l]))

(* the handshake fails: run_forever calls on_error and tears down *)
DialFail(l, B) ==
    /\ lst[l].kind = "push" /\ lst[l].pc = "dialing"
    /\ lst[l].error_count < B.err
    /\ SetListener(l, [on_error(lst[l]) EXCEPT !.pc = "closing"])

Message(l, B) ==
    /\ lst[l].kind = "push" /\ lst[l].pc = "open"
    /\ \E frame \in B.frames, n \in B.runs :
          /\ frame.kind \in {"error", "malformed", "nondict"}
                => lst[l].error_count < B.err
          /\ frame.kind \notin {"error", "malformed", "nondict"} => n = 1
          /\ SetListener(l, on_message(lst[l], frame, n))

(* a transport error on an open connection: on_error, then teardown *)
TransportError(l, B) ==
    /\ lst[l].kind = "push" /\ lst[l].pc = "open"
    /\ lst[l].error_count < B.err
    /\ SetListener(l, [on_error(lst[l]) EXCEPT !.pc = "closing"])

(* the reader closes the connection *)
PeerClose(l) ==
    /\ lst[l].kind = "push" /\ lst[l].pc = "open"
    /\ SetListener(l, [lst[l] EXCEPT !.pc = "closing"])

(* run_forever's teardown calls on_close *)
OnClose(l, B) ==
    /\ lst[l].kind = "push" /\ lst[l].pc = "closing"
    /\ lst[l].running => lst[l].reconnect_attempts < B.att
    /\ SetListener(l, on_close(lst[l]))

(* time.sleep(self.reconnect_delay) returns *)
Wake(l, B) ==
    /\ lst[l].kind = "push" /\ lst[l].pc = "wait"
    /\ SetListener(l, on_close_wake(lst[l], TRUE, B.stack))

(* the same, with connect() catching an exception *)
WakeConnectFail(l, B) ==
    /\ lst[l].kind = "push" /\ lst[l].pc = "wait"
    /\ lst[l].error_count < B.err
    /\ SetListener(l, on_close_wake(lst[l], FALSE, B.stack))

PushStep(l, B) ==
    \/ PushRun(l)
    \/ PushRunConnectFail(l, B)
    \/ DialOk(l)
    \/ DialFail(l, B)
    \/ Message(l, B)
    \/ TransportError(l, B)
    \/ PeerClose(l)
    \/ OnClose(l, B)
    \/ Wake(l, B)
    \/ WakeConnectFail(l, B)

----------------------------------------------------------------------------
(* Steps of a poll listener's thread *)

(* run(): running = True, the first test of while self.running *)
PollRun(l) ==
    /\ lst[l].kind = "poll" /\ lst[l].pc = "started"
    /\ SetListener(l, [lst[l] EXCEPT !.running = TRUE, !.pc = "polling"])

(* requests.get returns or raises; the rest of the iteration follows *)
PollResponse(l, B) ==
    /\ lst[l].kind = "poll" /\ lst[l].pc = "polling"
    /\ \E out \in B.outs :
          /\ out.kind # "ok" => lst[l].error_count < B.err
          /\ out.kind = "exception" => lst[l].reconnect_attempts < B.att
          /\ SetListener(l, poll_iteration(lst[l], out))

(* time.sleep returns: the next iteration, or the end of run() *)
PollWake(l) ==
    /\ lst[l].kind = "poll" /\ lst[l].pc \in {"sleep", "backoff"}
    /\ SetListener(l, poll_wake(lst[l]))

PollStep(l, B) ==
    \/ PollRun(l)
    \/ PollResponse(l, B)
    \/ PollWake(l)

----------------------------------------------------------------------------
(* Registry and supervisor *)

(* an external call of start_rfid_reader_listener (create_app, post_fork), *)
(* before the exit hooks run                                               *)
StartCall ==
    /\ startCalls < MaxStartCalls
    /\ ~shutdown
    /\ LET r == start_rfid_reader_listener(lst, active_listeners, mon, config)
       IN  /\ r.ok
           /\ lst' = r.lst
           /\ active_listeners' = r.reg
           /\ mon' = r.mon
    /\ startCalls' = startCalls + 1
    /\ UNCHANGED <<config, alerts, webhook, shutdown, stopper, otherVars>>

(* stop_all_rfid_listeners is entered (cleanup, on_exit, worker_exit):    *)
(* the for statement creates the iterator of active_listeners.items()    *)
StopAllBegin ==
    /\ stopper.pc # "iter"
    /\ stopper.calls < MaxStopCalls
    /\ stopper' = stop_all_begin(stopper, active_listeners)
    /\ shutdown' = TRUE
    /\ UNCHANGED <<config, lst, active_listeners, mon, alerts, webhook, startCalls,
                   otherVars>>

(* the iterator's next(): RuntimeError, or stop() on the next listener, *)
(* or the end of the loop and active_listeners.clear()                  *)
StopAllNext ==
    /\ stopper.pc = "iter"
    /\ \E ok \in BOOLEAN :
          LET r == stop_all_next(stopper, active_listeners, lst, ok)
              at == stopper.i < Len(active_listeners)
                       /\ Len(active_listeners) = Len(stopper.reg0)
          IN  /\ ~ok => at /\ can_raise(lst[active_listeners[stopper.i + 1].lid])
              /\ stopper' = r.stopper
              /\ active_listeners' = r.reg
              /\ lst' = r.lst
    /\ UNCHANGED <<config, mon, alerts, webhook, startCalls, shutdown, otherVars>>

(* monitor_listeners: time.sleep(10), time.sleep(30) or time.sleep(60)   *)
(* returns and the for loop takes list(active_listeners.items())          *)
MonNextPass(m) ==
    /\ \/ mon[m].pc \in {"grace", "backoff"}
       \/ mon[m].pc = "iter" /\ mon[m].i > Len(mon[m].snap)
    /\ mon' = [mon EXCEPT ![m].pc = "iter", ![m].snap = active_listeners,
                          ![m].i = 1, ![m].status = NoStatus]
    /\ UNCHANGED <<config, lst, active_listeners, alerts, webhook, startCalls, shutdown, stopper, otherVars>>

AtEntry(m) == mon[m].pc = "iter" /\ mon[m].i <= Len(mon[m].snap)

Entry(m) == mon[m].snap[mon[m].i]

(* lines 388-398: the listener's thread is not alive; post_ok is whether *)
(* the requests.post of send_alert returns                               *)
MonDead(m) ==
    /\ AtEntry(m)
    /\ ~is_alive(lst[Entry(m).lid])
    /\ LET r == Entry(m).reader
           popped == RegPop(active_listeners, r)
           s == start_rfid_reader_listener(lst, popped, mon, config)
       IN  IF in_RFID_READERS(config, r)
           THEN \E post_ok \in BOOLEAN :
                   LET a == send_alert(alerts, webhook, <<r, "connection lost">>,
                                       config, TRUE, post_ok)
                   IN  /\ ~post_ok => config.ALERT_WEBHOOK_URL # "none"
                       /\ s.ok
                       /\ lst' = s.lst
                       /\ active_listeners' = s.reg
                       /\ mon' = IF a.raised
                                 THEN [s.mon EXCEPT ![m] = monitor_except(@)]
                                 ELSE [s.mon EXCEPT ![m].i = @ + 1]
                       /\ alerts' = a.alerts
                       /\ webhook' = a.webhook
           ELSE /\ active_listeners' = popped
                /\ mon' = [mon EXCEPT ![m].i = @ + 1]
                /\ UNCHANGED <<lst, alerts, webhook>>
    /\ UNCHANGED <<config, startCalls, shutdown, stopper, otherVars>>

(* lines 401-410: get_status, too many errors: stop, pop, time.sleep(1) *)
MonExcess(m) ==
    /\ AtEntry(m)
    /\ is_alive(lst[Entry(m).lid])
    /\ \E inactivity \in Inactivity :
          LET status == get_status(lst[Entry(m).lid], inactivity)
          IN  /\ excessive_errors(status)
              /\ mon' = [mon EXCEPT ![m].pc = "wait", ![m].status = status]
    /\ lst' = [lst EXCEPT ![Entry(m).lid] = stop(@)]
    /\ active_listeners' = RegPop(active_listeners, Entry(m).reader)
    /\ UNCHANGED <<config, alerts, webhook, startCalls, shutdown, stopper, otherVars>>

(* lines 411-414: time.sleep(1) returns: restart and alert *)
MonRestart(m) ==
    /\ mon[m].pc = "wait"
    /\ \E post_ok \in BOOLEAN :
          LET s == start_rfid_reader_listener(lst, active_listeners, mon, config)
              a == send_alert(alerts, webhook,
                              <<Entry(m).reader, "excessive errors">>,
                              config, TRUE, post_ok)
          IN  /\ ~post_ok => config.ALERT_WEBHOOK_URL # "none"
              /\ s.ok
              /\ lst' = s.lst
              /\ active_listeners' = s.reg
              /\ mon' = IF a.raised
                        THEN [s.mon EXCEPT ![m] = monitor_except(@)]
                        ELSE [s.mon EXCEPT ![m].pc = "iter", ![m].i = @ + 1]
              /\ alerts' = a.alerts
              /\ webhook' = a.webhook
    /\ UNCHANGED <<config, startCalls, shutdown, stopper, otherVars>>

(* lines 401-420: get_status of a live listener with at most ErrThreshold *)
(* errors; the inactivity alert, whose send_alert is the first use of     *)
(* current_app in the step (ctx_ok is whether the thread has an           *)
(* application context)                                                   *)
MonHealthy(m) ==
    /\ AtEntry(m)
    /\ is_alive(lst[Entry(m).lid])
    /\ \E inactivity \in Inactivity, ctx_ok \in BOOLEAN, post_ok \in BOOLEAN :
          LET status == get_status(lst[Entry(m).lid], inactivity)
              a == send_alert(alerts, webhook, <<Entry(m).reader, "inactive">>,
                              config, ctx_ok, post_ok)
          IN  /\ ~excessive_errors(status)
              /\ ~inactive(status) => ctx_ok /\ post_ok
              /\ ~post_ok => ctx_ok /\ config.ALERT_WEBHOOK_URL # "none"
              /\ IF inactive(status)
                 THEN /\ mon' = IF a.raised
                                THEN [mon EXCEPT ![m] =
                                        monitor_except([@ EXCEPT !.status = status])]
                                ELSE [mon EXCEPT ![m].i = @ + 1,
                                                 ![m].status = status]
                      /\ alerts' = a.alerts
                      /\ webhook' = a.webhook
                 ELSE /\ mon' = [mon EXCEPT ![m].i = @ + 1, ![m].status = status]
                      /\ UNCHANGED <<alerts, webhook>>
    /\ UNCHANGED <<config, lst, active_listeners, startCalls, shutdown, stopper, otherVars>>

(* an exception inside the pass reaches the except branch of line 425:    *)
(* raised by line 393 or 396, after the dead entry was popped, by the     *)
(* stop() of line 407, or by the restart of line 412                      *)
MonError(m) ==
    /\ mon[m].errors < MaxMonErrors
    /\ \/ /\ AtEntry(m)
          /\ ~is_alive(lst[Entry(m).lid])
          /\ active_listeners' = RegPop(active_listeners, Entry(m).reader)
          /\ mon' = [mon EXCEPT ![m] = monitor_except(@)]
          /\ UNCHANGED lst
       \/ /\ AtEntry(m)
          /\ is_alive(lst[Entry(m).lid])
          /\ can_raise(lst[Entry(m).lid])
          /\ \E inactivity \in Inactivity :
                LET status == get_status(lst[Entry(m).lid], inactivity)
                IN  /\ excessive_errors(status)
                    /\ mon' = [mon EXCEPT
                                  ![m] = monitor_except([@ EXCEPT !.status = status])]
          /\ lst' = [lst EXCEPT ![Entry(m).lid] = stop_raises(@)]
          /\ UNCHANGED active_listeners
       \/ /\ mon[m].pc = "wait"
          /\ mon' = [mon EXCEPT ![m] = monitor_except(@)]
          /\ UNCHANGED <<lst, active_listeners>>
    /\ UNCHANGED <<config, alerts, webhook, startCalls, shutdown, stopper, otherVars>>

MonStep(m) ==
    \/ MonNextPass(m)
    \/ MonDead(m)
    \/ MonExcess(m)
    \/ MonRestart(m)
    \/ MonHealthy(m)
    \/ MonError(m)

----------------------------------------------------------------------------
(* Specifications *)

(* the PLC client and the scan processor at rest *)
OtherIdle ==
    /\ opcua = <<>>
    /\ tracking = <<>>
    /\ calls = <<>>

Empty ==
    /\ lst = [l \in ListenerIds |-> NoListener]
    /\ active_listeners = <<>>
    /\ mon = NoMonitors
    /\ alerts = {}
    /\ webhook = NoWebhook
    /\ stopper = NoStopper

(* the whole subsystem, from process start *)
Init ==
    /\ config \in SysConfigs
    /\ Empty
    /\ OtherIdle
    /\ startCalls = 0
    /\ shutdown = FALSE

Next ==
    \/ StartCall
    \/ StopAllBegin
    \/ StopAllNext
    \/ \E m \in MonitorIds : MonStep(m)
    \/ \E l \in ListenerIds : PushStep(l, SysB)
    \/ \E l \in ListenerIds : PollStep(l, SysB)

Spec == Init /\ [][Next]_vars

(* the state start_rfid_reader_listener leaves behind for cfg *)
Started(cfg) ==
    LET r == start_rfid_reader_listener([l \in ListenerIds |-> NoListener],
                                        <<>>, NoMonitors,
                                        cfg)
    IN  /\ config = cfg
        /\ lst = r.lst
        /\ active_listeners = r.reg
        /\ mon = r.mon
        /\ alerts = {}
        /\ webhook = NoWebhook
        /\ startCalls = 1
        /\ shutdown = FALSE
        /\ stopper = NoStopper
        /\ OtherIdle

(* one push listener and the callers of its stop() *)
InitPush == \E cfg \in PushConfigs : Started(cfg)

NextPush ==
    \/ StopAllBegin
    \/ StopAllNext
    \/ \E l \in ListenerIds : PushStep(l, PushB)

SpecPush == InitPush /\ [][NextPush]_vars

(* one poll listener and the callers of its stop() *)
InitPoll == \E cfg \in PollConfigs : Started(cfg)

NextPoll ==
    \/ StopAllBegin
    \/ StopAllNext
    \/ \E l \in ListenerIds : PollStep(l, PollB)

SpecPoll == InitPoll /\ [][NextPoll]_vars

(* start_rfid_reader_listener over the shapes RFID_READERS can have: a  *)
(* reader with no url, an absent polling_interval, the fallback reader  *)
(* of RFID_READER_API_URL, no reader at all; the listeners started may  *)
(* run, and a push listener's thread may end; StartB bounds the         *)
(* reconnect cycles and the errors explored                             *)
StartConfigs ==
    {Cfg(<<ReaderCfg("entrance", "ws", None), ReaderCfg("shelf", "http", 6 * Scale)>>,
         "none", "development"),
     Cfg(<<ReaderCfg("dock", "none", None), ReaderCfg("shelf", "http", None)>>,
         "ws", "development"),
     Cfg(<<ReaderCfg("entrance", "ws", None)>>, "none", "production"),
     Cfg(<<>>, "ws", "production"),
     Cfg(<<>>, "http", "development"),
     Cfg(<<>>, "none", "production")}

StartB ==
    [att |-> SysMaxAttempts, err |-> SysMaxErrors, runs |-> {1},
     frames |-> {f \in Frames : f.kind = "error"}, outs |-> {}, stack |-> 0]

InitStart ==
    /\ config \in StartConfigs
    /\ Empty
    /\ OtherIdle
    /\ startCalls = 0
    /\ shutdown = FALSE

NextStart ==
    \/ StartCall
    \/ \E l \in ListenerIds :
          \/ PushStep(l, StartB)
          \/ PollRun(l)

SpecStart == InitStart /\ [][NextStart]_vars

(* the supervisor and its alerts: one push reader in production, with and *)
(* without an alert sink configured                                       *)
AlertConfigs ==
    {[Cfg(<<ReaderCfg("entrance", "ws", None)>>, "none", "production")
         EXCEPT !.ALERT_WEBHOOK_URL = url] : url \in {"none", "hook"}}

InitAlert ==
    /\ config \in AlertConfigs
    /\ Empty
    /\ OtherIdle
    /\ startCalls = 0
    /\ shutdown = FALSE

NextAlert ==
    \/ StartCall
    \/ \E m \in MonitorIds : MonStep(m)
    \/ \E l \in ListenerIds : PushStep(l, SysB)

SpecAlert == InitAlert /\ [][NextAlert]_vars

(* the same with the monitor threads scheduled: a monitor thread that *)
(* can take a step takes one                                          *)
SpecAlertFair == SpecAlert /\ \A m \in MonitorIds : WF_vars(MonStep(m))

(* one push listener that nobody stops, its reader failing and coming    *)
(* back at will, the thread's stack followed up to RecursionLimit; att   *)
(* and err are beyond what that many reconnect cycles can reach          *)
ReconnectB ==
    [att |-> RecursionLimit + 2, err |-> 2 * RecursionLimit + 6, runs |-> {1},
     frames |-> {}, outs |-> {}, stack |-> RecursionLimit]

InitReconnect == \E cfg \in PushConfigs : Started(cfg)

(* the steps the listener's thread takes by itself *)
ReconnectStep(l) ==
    \/ PushRun(l)
    \/ OnClose(l, ReconnectB)
    \/ Wake(l, ReconnectB)

(* the steps that depend on the reader or on the WebSocket library *)
ReaderStep(l) ==
    \/ PushRunConnectFail(l, ReconnectB)
    \/ DialOk(l)
    \/ DialFail(l, ReconnectB)
    \/ TransportError(l, ReconnectB)
    \/ PeerClose(l)
    \/ WakeConnectFail(l, ReconnectB)

NextReconnect == \E l \in ListenerIds : ReconnectStep(l) \/ ReaderStep(l)

SpecReconnect == InitReconnect /\ [][NextReconnect]_vars

(* the thread is scheduled: a step it can take by itself is taken *)
SpecReconnectFair ==
    SpecReconnect /\ \A l \in ListenerIds : WF_vars(ReconnectStep(l))

----------------------------------------------------------------------------
(* Scan processor: app/services/rfid_service.py, process_rfid_scan.        *)
(* calls.frame[c] is the call caller c has in progress, with the pending   *)
(* objects of its db.session; calls.history records, per batch, the tag    *)
(* list and the outcome; a row of tracking carries the batch it comes from.*)

CallerIds == 1 .. MaxCallers

ScanTags == {"A", "B", "C"}

ScanTagLists == UNION {[1 .. n -> ScanTags] : n \in 0 .. MaxTags}

(* the products table: rfid_tag is unique; tag B belongs to no product *)
ProductTable ==
    [t \in {"A", "C", "T1"} |->
        [product_id |-> IF t = "A" THEN 1 ELSE IF t = "C" THEN 3 ELSE 4,
         name |-> t, category_id |-> 7]]

NoProduct == [product_id |-> None, name |-> "none", category_id |-> None]

(* Product.query.filter_by(rfid_tag=tag).first() *)
query_first(tag) ==
    IF tag \in DOMAIN ProductTable THEN ProductTable[tag] ELSE NoProduct

(* RFIDTracking(rfid_tag=tag, product_id=product.id, status='scanned') *)
RFIDTracking(tag, product_id, batch) ==
    [rfid_tag |-> tag, product_id |-> product_id, status |-> "scanned",
     batch |-> batch]

NoResults == [processed |-> 0, unknown_tags |-> <<>>, items |-> <<>>]

(* Positions of a call: idle, loop (in the for loop, at tag i; past the   *)
(* last tag, at db.session.commit()), returned, failed (an exception left *)
(* process_rfid_scan and was caught by the caller)                        *)
NoCall ==
    [pc |-> "idle", rfid_tags |-> <<>>, i |-> 0, results |-> NoResults,
     session |-> <<>>, batch |-> 0]

(* the loop body that commits each record as it adds it *)
scan_tag_commit_mut(f, rows) ==
    LET tag == f.rfid_tags[f.i]
        product == query_first(tag)
    IN  IF product = NoProduct
        THEN [call |-> [f EXCEPT !.results.unknown_tags = Append(@, tag),
                                 !.i = @ + 1],
              tracking |-> rows]
        ELSE [call |-> [f EXCEPT !.results.processed = @ + 1,
                                 !.results.items = Append(@, product),
                                 !.i = @ + 1],
              tracking |-> Append(rows, RFIDTracking(tag, product.product_id,
                                                     f.batch))]

(* the loop body that counts every tag as processed *)
scan_tag_count_mut(f, rows) ==
    LET tag == f.rfid_tags[f.i]
        product == query_first(tag)
    IN  IF product = NoProduct
        THEN [call |-> [f EXCEPT !.results.unknown_tags = Append(@, tag),
                                 !.results.processed = @ + 1,
                                 !.i = @ + 1],
              tracking |-> rows]
        ELSE [call |-> [f EXCEPT !.session =
                                     Append(@, RFIDTracking(tag, product.product_id,
                                                            f.batch)),
                                 !.results.processed = @ + 1,
                                 !.results.items = Append(@, product),
                                 !.i = @ + 1],
              tracking |-> rows]

(* one iteration of the for loop, lines 122-143: the call and the store *)
scan_tag(f, rows) ==
    LET tag == f.rfid_tags[f.i]
        product == query_first(tag)
    IN  IF product = NoProduct
        THEN [call |-> [f EXCEPT !.results.unknown_tags = Append(@, tag),
                                 !.i = @ + 1],
              tracking |-> rows]
        ELSE [call |-> [f EXCEPT !.session =
                                     Append(@, RFIDTracking(tag, product.product_id,
                                                            f.batch)),
                                 !.results.processed = @ + 1,
                                 !.results.items = Append(@, product),
                                 !.i = @ + 1],
              tracking |-> rows]

(* db.session.commit(): the store appends the pending rows of the session *)
(* as one transaction, or rejects them all                                *)
commit(rows, session, ok) == IF ok THEN rows \o session ELSE rows

NoCalls ==
    [frame |-> [c \in CallerIds |-> NoCall], history |-> <<>>,
     threads |-> <<>>, frames |-> <<>>]

(* process_rfid_scan(reader_id, rfid_tags) is entered by caller c: the *)
(* results dict of lines 116-120 and the first tag                     *)
process_rfid_scan_enter(cs, c, tags) ==
    [cs EXCEPT !.frame[c] = [NoCall EXCEPT !.pc = "loop", !.rfid_tags = tags,
                                           !.i = 1,
                                           !.batch = Len(cs.history) + 1],
               !.history = Append(@, [caller |-> c, rfid_tags |-> tags,
                                      outcome |-> "running"])]

SetCall(c, f, outcome) ==
    calls' = [calls EXCEPT !.frame[c] = f,
                           !.history[calls.frame[c].batch].outcome = outcome]

(* process_rfid_scan is entered, by reader_scan, simulate_rfid_scan or a *)
(* listener's _process_scan, in a context of its own                     *)
ScanCall(c) ==
    /\ calls.frame[c].pc = "idle"
    /\ Len(calls.history) < MaxBatches
    /\ \E tags \in ScanTagLists :
          calls' = process_rfid_scan_enter(calls, c, tags)
    /\ UNCHANGED <<rfidVars, opcua, tracking>>

ScanTag(c) ==
    /\ calls.frame[c].pc = "loop"
    /\ calls.frame[c].i <= Len(calls.frame[c].rfid_tags)
    /\ LET r == scan_tag(calls.frame[c], tracking)
       IN  /\ SetCall(c, r.call, "running")
           /\ tracking' = r.tracking
    /\ UNCHANGED <<rfidVars, opcua>>

(* the query of line 124 raises: the exception leaves process_rfid_scan *)
ScanQueryFails(c) ==
    /\ calls.frame[c].pc = "loop"
    /\ calls.frame[c].i <= Len(calls.frame[c].rfid_tags)
    /\ SetCall(c, [calls.frame[c] EXCEPT !.pc = "failed"], "failed")
    /\ UNCHANGED <<rfidVars, opcua, tracking>>

(* line 145: db.session.commit() returns, or raises *)
ScanCommit(c) ==
    /\ calls.frame[c].pc = "loop"
    /\ calls.frame[c].i > Len(calls.frame[c].rfid_tags)
    /\ \E ok \in BOOLEAN :
          /\ tracking' = commit(tracking, calls.frame[c].session, ok)
          /\ IF ok
             THEN SetCall(c, [calls.frame[c] EXCEPT !.pc = "returned",
                                                    !.session = <<>>],
                          "committed")
             ELSE SetCall(c, [calls.frame[c] EXCEPT !.pc = "failed"], "failed")
    /\ UNCHANGED <<rfidVars, opcua>>

(* the caller returns and its context ends: the session is discarded *)
ScanExit(c) ==
    /\ calls.frame[c].pc \in {"returned", "failed"}
    /\ calls' = [calls EXCEPT !.frame[c] = NoCall]
    /\ UNCHANGED <<rfidVars, opcua, tracking>>

(* the listeners at rest *)
RfidIdle ==
    /\ config = Cfg(<<>>, "none", "development")
    /\ Empty
    /\ startCalls = 0
    /\ shutdown = FALSE

InitScan ==
    /\ RfidIdle
    /\ opcua = <<>>
    /\ tracking = <<>>
    /\ calls = NoCalls

NextScan ==
    \E c \in CallerIds :
        \/ ScanCall(c)
        \/ ScanTag(c)
        \/ ScanQueryFails(c)
        \/ ScanCommit(c)
        \/ ScanExit(c)

SpecScan == InitScan /\ [][NextScan]_vars

----------------------------------------------------------------------------
(* Dispatch: the processing threads that on_message and _poll_reader      *)
(* start (rfid_listener.py lines 96-101 and 269-274) and their            *)
(* _process_scan (lines 118-127 and 283-292).  calls.threads are the      *)
(* threads started, in order; thread t calls process_rfid_scan as caller  *)
(* t.  calls.frames records what the listeners have handled.              *)
(* Positions of a thread: spawned (start() returned, _process_scan not    *)
(* begun), processing (in process_rfid_scan), except (in the except       *)
(* block, before self.error_count += 1), store (error_count read, not yet *)
(* written back), done.                                                   *)

ThreadIds == 1 .. MaxThreads

NewThread(l, rec, tags) ==
    [owner |-> l, reader_id |-> rec.reader, rfid_tags |-> tags,
     pc |-> "spawned", loaded |-> 0, invoked |-> FALSE]

(* the dispatch that runs _process_scan in the listener's own thread: *)
(* the loop waits for every batch it has handed over                  *)
loop_waits_mut(threads, l) ==
    \E t \in DOMAIN threads : threads[t].owner = l /\ threads[t].pc # "done"

(* whether the receive or poll loop of listener l has to wait for the *)
(* batches it has handed over: Thread.start() returns at once and the *)
(* thread is never joined                                             *)
loop_waits(threads, l) == FALSE

(* processing_thread.start() for each tag list the handler handed over *)
start_threads(threads, l, rec) ==
    threads \o [i \in 1 .. Len(rec.disp) |-> NewThread(l, rec, rec.disp[i].tags)]

DispatchFrames == Frames

DispatchOutcomes ==
    {o \in PollOutcomes : o.kind \in {"ok", "http_error"} /\ Len(o.scans) <= 1}

(* run_forever calls on_message with a frame of the reader *)
DispatchMessage(l) ==
    /\ lst[l].kind = "push" /\ lst[l].pc = "open"
    /\ ~loop_waits(calls.threads, l)
    /\ Len(calls.frames) < MaxFrames
    /\ \E frame \in DispatchFrames :
          LET rec == on_message([lst[l] EXCEPT !.disp = <<>>], frame, 1)
          IN  /\ Len(calls.threads) + Len(rec.disp) <= MaxThreads
              /\ lst' = [lst EXCEPT ![l] = rec]
              /\ calls' = [calls EXCEPT
                              !.threads = start_threads(@, l, rec),
                              !.frames = Append(@, frame)]
    /\ UNCHANGED <<config, active_listeners, mon, alerts, webhook, startCalls,
                   shutdown, stopper, opcua, tracking>>

(* requests.get returns and _poll_reader handles the response *)
DispatchPoll(l) ==
    /\ lst[l].kind = "poll" /\ lst[l].pc = "polling"
    /\ ~loop_waits(calls.threads, l)
    /\ Len(calls.frames) < MaxFrames
    /\ \E out \in DispatchOutcomes :
          LET rec == poll_iteration(lst[l], out)
          IN  /\ Len(calls.threads) + Len(rec.disp) <= MaxThreads
              /\ lst' = [lst EXCEPT ![l] = rec]
              /\ calls' = [calls EXCEPT
                              !.threads = start_threads(@, l, rec),
                              !.frames = Append(@, [kind |-> out.kind,
                                                    rfid_tags |-> <<>>])]
    /\ UNCHANGED <<config, active_listeners, mon, alerts, webhook, startCalls,
                   shutdown, stopper, opcua, tracking>>

(* _process_scan begins: 'with current_app.app_context()' is entered   *)
(* and process_rfid_scan called, or entering raises                     *)
ThreadEnter(t) ==
    /\ t \in DOMAIN calls.threads
    /\ calls.threads[t].pc = "spawned"
    /\ \E ctx_ok \in BOOLEAN :
          calls' = IF ctx_ok
                   THEN [process_rfid_scan_enter(calls, t,
                                                 calls.threads[t].rfid_tags)
                            EXCEPT !.threads[t].pc = "processing",
                                   !.threads[t].invoked = TRUE]
                   ELSE [calls EXCEPT !.threads[t].pc = "except"]
    /\ UNCHANGED <<rfidVars, opcua, tracking>>

(* process_rfid_scan returns, or its exception reaches the except block; *)
(* the with block ends and the session goes with it                      *)
ThreadProcessed(t) ==
    /\ t \in DOMAIN calls.threads
    /\ calls.threads[t].pc = "processing"
    /\ calls.frame[t].pc \in {"returned", "failed"}
    /\ calls' = [calls EXCEPT
                    !.frame[t] = NoCall,
                    !.threads[t].pc = IF calls.frame[t].pc = "returned"
                                      THEN "done" ELSE "except"]
    /\ UNCHANGED <<rfidVars, opcua, tracking>>

(* self.error_count += 1 in the processing thread: the read *)
ThreadLoad(t) ==
    /\ t \in DOMAIN calls.threads
    /\ calls.threads[t].pc = "except"
    /\ calls' = [calls EXCEPT
                    !.threads[t].pc = "store",
                    !.threads[t].loaded = lst[calls.threads[t].owner].error_count]
    /\ UNCHANGED <<rfidVars, opcua, tracking>>

(* self.error_count += 1 in the processing thread: the write *)
ThreadStore(t) ==
    /\ t \in DOMAIN calls.threads
    /\ calls.threads[t].pc = "store"
    /\ lst' = [lst EXCEPT ![calls.threads[t].owner].error_count =
                              calls.threads[t].loaded + 1]
    /\ calls' = [calls EXCEPT !.threads[t].pc = "done"]
    /\ UNCHANGED <<config, active_listeners, mon, alerts, webhook, startCalls,
                   shutdown, stopper, opcua, tracking>>

DispatchConfigs ==
    {Cfg(<<ReaderCfg("entrance", "ws", None)>>, "none", "development"),
     Cfg(<<ReaderCfg("shelf", "http", Scale)>>, "none", "development")}

(* one listener, push or poll, just started, and no batch in progress *)
InitDispatch ==
    /\ \E cfg \in DispatchConfigs :
          LET r == start_rfid_reader_listener([l \in ListenerIds |-> NoListener],
                                              <<>>,
                                              NoMonitors,
                                              cfg)
          IN  /\ config = cfg
              /\ lst = r.lst
              /\ active_listeners = r.reg
              /\ mon = r.mon
    /\ alerts = {}
    /\ webhook = NoWebhook
    /\ startCalls = 1
    /\ shutdown = FALSE
    /\ stopper = NoStopper
    /\ opcua = <<>>
    /\ tracking = <<>>
    /\ calls = NoCalls

NextDispatch ==
    \/ \E l \in ListenerIds :
          \/ PushRun(l)
          \/ DialOk(l)
          \/ DispatchMessage(l)
          \/ PollRun(l)
          \/ DispatchPoll(l)
          \/ PollWake(l)
    \/ \E t \in ThreadIds :
          \/ ThreadEnter(t)
          \/ ScanTag(t)
          \/ ScanQueryFails(t)
          \/ ScanCommit(t)
          \/ ThreadProcessed(t)
          \/ ThreadLoad(t)
          \/ ThreadStore(t)

SpecDispatch == InitDispatch /\ [][NextDispatch]_vars

----------------------------------------------------------------------------
(* PLC client: app/services/opcua_service.py, connect_opcua_client,        *)
(* read_opcua_value and write_opcua_value, and opcua_status of             *)
(* app/routes/opcua.py.  opcua.frame is the read or write call in          *)
(* progress, opcua.status the opcua_status request in progress (another    *)
(* thread of the server), opcua.plc the node values of the PLC,            *)
(* opcua.open the number of connections the read and write calls have      *)
(* open, opcua.dials and opcua.failures count their client.connect()       *)
(* calls and their failures since process start.                           *)

NodeIds ==
    {"ns=2;s=ItemCount", "ns=2;s=HMIStatus", "invalid_node", "ns=2;invalid",
     "ns=;s=ItemCount"}

(* the node ids client.get_node can parse and the PLC has *)
PlcNodes == {"ns=2;s=ItemCount", "ns=2;s=HMIStatus"}

NodeValues == {0, 10}

(* what a call returns: nothing yet, the node's value, {"message": ...} *)
(* or {"error": ...}                                                    *)
NoResult == [kind |-> "none", text |-> "", value |-> 0]

OpcuaValue(v) == [kind |-> "value", text |-> "", value |-> v]

OpcuaMessage(text) == [kind |-> "message", text |-> text, value |-> 0]

OpcuaError(text) == [kind |-> "error", text |-> text, value |-> 0]

(* Positions of a call: idle; connect (in connect_opcua_client, before   *)
(* the client.connect() of attempt number attempt); sleep (in            *)
(* time.sleep(delay)); operate (connect_opcua_client has returned);      *)
(* finally (the return value is set, the finally block not yet run);     *)
(* returning (the finally block has run); done (the call has returned    *)
(* and its locals are gone); raised (an exception has left the call).    *)
(* client is the local variable (TRUE: a Client object), connected       *)
(* whether that object's connection to the PLC is up, fault what made    *)
(* the call fail, disc what client.disconnect() did, value_ops the       *)
(* number of node.get_value() / node.set_value() calls and discs the     *)
(* number of client.disconnect() calls of this call                      *)
NoOp ==
    [pc |-> "idle", op |-> "none", node_id |-> "none", value |-> 0,
     attempt |-> 0, client |-> FALSE, connected |-> FALSE, dials |-> 0,
     failed |-> 0, sleeps |-> <<>>, node_ops |-> 0, fault |-> "none",
     disc |-> "none", value_ops |-> 0, discs |-> 0,
     result |-> NoResult, plc0 |-> <<>>]

NoOpcua ==
    [frame |-> NoOp, status |-> NoOp, plc |-> [n \in PlcNodes |-> 0],
     open |-> 0, dials |-> 0, failures |-> 0, ops |-> 0, polls |-> 0]

(* the retry loop that sleeps after the last attempt too *)
connect_attempt_mut(f, ok) ==
    IF ok
    THEN [f EXCEPT !.dials = @ + 1, !.client = TRUE, !.connected = TRUE,
                   !.pc = "operate"]
    ELSE IF f.attempt < OpcuaRetries
    THEN [f EXCEPT !.dials = @ + 1, !.failed = @ + 1,
                   !.sleeps = Append(@, OpcuaDelay),
                   !.attempt = @ + 1, !.pc = "sleep"]
    ELSE [f EXCEPT !.dials = @ + 1, !.failed = @ + 1,
                   !.attempt = @ + 1, !.pc = "operate"]

(* one iteration of connect_opcua_client's for loop: client.connect()   *)
(* returns (ok) or raises; after the last attempt the loop ends and     *)
(* None is returned                                                     *)
connect_attempt(f, ok) ==
    IF ok
    THEN [f EXCEPT !.dials = @ + 1, !.client = TRUE, !.connected = TRUE,
                   !.pc = "operate"]
    ELSE IF f.attempt < OpcuaRetries - 1
    THEN [f EXCEPT !.dials = @ + 1, !.failed = @ + 1,
                   !.sleeps = Append(@, OpcuaDelay),
                   !.attempt = @ + 1, !.pc = "sleep"]
    ELSE [f EXCEPT !.dials = @ + 1, !.failed = @ + 1,
                   !.attempt = @ + 1, !.pc = "operate"]

(* client.get_node(node_id) raises on a string it cannot parse *)
get_node_raises(node_id) == node_id \notin PlcNodes

(* the call that tries a refused get_value / set_value a second time *)
operate_retry_mut(o, node_ok) ==
    LET f == o.frame
    IN  IF ~f.client
        THEN [o EXCEPT !.frame.result = OpcuaError("Cannot connect to OPC UA server"),
                       !.frame.fault = "connect", !.frame.pc = "finally"]
        ELSE IF get_node_raises(f.node_id)
        THEN [o EXCEPT !.frame.result = OpcuaError("exception"),
                       !.frame.fault = "get_node", !.frame.pc = "finally",
                       !.frame.node_ops = @ + 1, !.failures = @ + 1]
        ELSE IF ~node_ok
        THEN [o EXCEPT !.frame.result = OpcuaError("exception"),
                       !.frame.fault = "node", !.frame.pc = "finally",
                       !.frame.node_ops = @ + 3, !.frame.value_ops = @ + 2,
                       !.failures = @ + 2]
        ELSE IF f.op = "read"
        THEN [o EXCEPT !.frame.result = OpcuaValue(o.plc[f.node_id]),
                       !.frame.pc = "finally", !.frame.node_ops = @ + 2,
                       !.frame.value_ops = @ + 1]
        ELSE [o EXCEPT !.frame.result = OpcuaMessage("Value written successfully"),
                       !.frame.pc = "finally", !.plc[f.node_id] = f.value,
                       !.frame.node_ops = @ + 2, !.frame.value_ops = @ + 1]

(* the write that reports success without node.set_value *)
operate_mut(o, node_ok) ==
    LET f == o.frame
    IN  IF ~f.client
        THEN [o EXCEPT !.frame.result = OpcuaError("Cannot connect to OPC UA server"),
                       !.frame.fault = "connect", !.frame.pc = "finally"]
        ELSE IF get_node_raises(f.node_id)
        THEN [o EXCEPT !.frame.result = OpcuaError("exception"),
                       !.frame.fault = "get_node", !.frame.pc = "finally",
                       !.frame.node_ops = @ + 1, !.failures = @ + 1]
        ELSE IF ~node_ok
        THEN [o EXCEPT !.frame.result = OpcuaError("exception"),
                       !.frame.fault = "node", !.frame.pc = "finally",
                       !.frame.node_ops = @ + 2, !.frame.value_ops = @ + 1,
                       !.failures = @ + 1]
        ELSE IF f.op = "read"
        THEN [o EXCEPT !.frame.result = OpcuaValue(o.plc[f.node_id]),
                       !.frame.pc = "finally", !.frame.node_ops = @ + 2,
                       !.frame.value_ops = @ + 1]
        ELSE [o EXCEPT !.frame.result = OpcuaMessage("Value written successfully"),
                       !.frame.pc = "finally", !.frame.node_ops = @ + 2,
                       !.frame.value_ops = @ + 1]

(* read_opcua_value / write_opcua_value after connect_opcua_client: the *)
(* test of client, get_node, get_value or set_value (node_ok is whether *)
(* the PLC accepts it; a refused set_value writes nothing) and the      *)
(* return statement, of the try block or of the except block            *)
operate(o, node_ok) ==
    LET f == o.frame
    IN  IF ~f.client
        THEN [o EXCEPT !.frame.result = OpcuaError("Cannot connect to OPC UA server"),
                       !.frame.fault = "connect", !.frame.pc = "finally"]
        ELSE IF get_node_raises(f.node_id)
        THEN [o EXCEPT !.frame.result = OpcuaError("exception"),
                       !.frame.fault = "get_node", !.frame.pc = "finally",
                       !.frame.node_ops = @ + 1, !.failures = @ + 1]
        ELSE IF ~node_ok
        THEN [o EXCEPT !.frame.result = OpcuaError("exception"),
                       !.frame.fault = "node", !.frame.pc = "finally",
                       !.frame.node_ops = @ + 2, !.frame.value_ops = @ + 1,
                       !.failures = @ + 1]
        ELSE IF f.op = "read"
        THEN [o EXCEPT !.frame.result = OpcuaValue(o.plc[f.node_id]),
                       !.frame.pc = "finally", !.frame.node_ops = @ + 2,
                       !.frame.value_ops = @ + 1]
        ELSE [o EXCEPT !.frame.result = OpcuaMessage("Value written successfully"),
                       !.frame.pc = "finally", !.plc[f.node_id] = f.value,
                       !.frame.node_ops = @ + 2, !.frame.value_ops = @ + 1]

(* the finally block that disconnects only after a node operation that *)
(* succeeded                                                           *)
finally_leak_mut(o, disc_ok) ==
    LET f == o.frame
    IN  IF ~f.client \/ f.fault # "none"
        THEN [o EXCEPT !.frame.pc = "returning"]
        ELSE [o EXCEPT !.frame.pc = "returning",
                       !.frame.connected = FALSE, !.frame.discs = @ + 1,
                       !.frame.disc = IF disc_ok THEN "ok" ELSE "failed",
                       !.open = @ - 1,
                       !.failures = IF disc_ok THEN @ ELSE @ + 1]

(* the finally block whose except clause lets the exception through *)
finally_mut(o, disc_ok) ==
    LET f == o.frame
    IN  IF ~f.client
        THEN [o EXCEPT !.frame.pc = "returning"]
        ELSE [o EXCEPT !.frame.pc = IF disc_ok THEN "returning" ELSE "raised",
                       !.frame.connected = FALSE, !.frame.discs = @ + 1,
                       !.frame.disc = IF disc_ok THEN "ok" ELSE "failed",
                       !.open = @ - 1,
                       !.failures = IF disc_ok THEN @ ELSE @ + 1]

(* the finally block: if client, client.disconnect(), whose exception  *)
(* the bare except swallows; the connection is gone either way         *)
(* (Client.disconnect closes the socket in its own finally); client    *)
(* stays bound                                                         *)
finally(o, disc_ok) ==
    LET f == o.frame
    IN  IF ~f.client
        THEN [o EXCEPT !.frame.pc = "returning"]
        ELSE [o EXCEPT !.frame.pc = "returning",
                       !.frame.connected = FALSE, !.frame.discs = @ + 1,
                       !.frame.disc = IF disc_ok THEN "ok" ELSE "failed",
                       !.open = @ - 1,
                       !.failures = IF disc_ok THEN @ ELSE @ + 1]

(* opcua_status after connect_opcua_client: if client, disconnect (its *)
(* exception leaves the view) and 'Connected', else 'Disconnected'     *)
status_finish(f, disc_ok) ==
    IF ~f.client
    THEN [f EXCEPT !.pc = "done", !.result = OpcuaMessage("Disconnected")]
    ELSE [f EXCEPT !.pc = IF disc_ok THEN "done" ELSE "raised",
                   !.client = FALSE, !.connected = FALSE,
                   !.disc = IF disc_ok THEN "ok" ELSE "failed",
                   !.result = IF disc_ok THEN OpcuaMessage("Connected") ELSE NoResult]

(* read_opcua_value(node_id) or write_opcua_value(node_id, value) is     *)
(* entered: client = None, then connect_opcua_client()                   *)
OpcuaCall ==
    /\ opcua.frame.pc \in {"idle", "done"}
    /\ opcua.ops < MaxOps
    /\ \E op \in {"read", "write"}, node_id \in NodeIds, value \in NodeValues :
          /\ op = "read" => value = 0
          /\ opcua' = [opcua EXCEPT
                          !.frame = [NoOp EXCEPT !.pc = "connect", !.op = op,
                                                 !.node_id = node_id,
                                                 !.value = value,
                                                 !.plc0 = opcua.plc],
                          !.ops = @ + 1]
    /\ UNCHANGED <<rfidVars, tracking, calls>>

(* client.connect() of line 90 returns or raises *)
OpcuaDial ==
    /\ opcua.frame.pc = "connect"
    /\ \E ok \in BOOLEAN :
          opcua' = [opcua EXCEPT !.frame = connect_attempt(@, ok),
                                 !.dials = @ + 1,
                                 !.open = IF ok THEN @ + 1 ELSE @,
                                 !.failures = IF ok THEN @ ELSE @ + 1]
    /\ UNCHANGED <<rfidVars, tracking, calls>>

(* time.sleep(delay) of line 96 returns *)
OpcuaWake ==
    /\ opcua.frame.pc = "sleep"
    /\ opcua' = [opcua EXCEPT !.frame.pc = "connect"]
    /\ UNCHANGED <<rfidVars, tracking, calls>>

OpcuaOperate ==
    /\ opcua.frame.pc = "operate"
    /\ \E node_ok \in BOOLEAN :
          /\ ~node_ok => opcua.frame.client /\ ~get_node_raises(opcua.frame.node_id)
          /\ opcua' = operate(opcua, node_ok)
    /\ UNCHANGED <<rfidVars, tracking, calls>>

OpcuaFinally ==
    /\ opcua.frame.pc = "finally"
    /\ \E disc_ok \in BOOLEAN :
          /\ ~disc_ok => opcua.frame.client
          /\ opcua' = finally(opcua, disc_ok)
    /\ UNCHANGED <<rfidVars, tracking, calls>>

(* the call returns its value *)
OpcuaReturn ==
    /\ opcua.frame.pc = "returning"
    /\ opcua' = [opcua EXCEPT !.frame.pc = "done", !.frame.client = FALSE]
    /\ UNCHANGED <<rfidVars, tracking, calls>>

(* GET /opcua/status by an authenticated user: connect_opcua_client() *)
StatusCall ==
    /\ opcua.status.pc \in {"idle", "done", "raised"}
    /\ opcua.polls < MaxStatusCalls
    /\ opcua' = [opcua EXCEPT !.status = [NoOp EXCEPT !.pc = "connect",
                                                        !.op = "status"],
                              !.polls = @ + 1]
    /\ UNCHANGED <<rfidVars, tracking, calls>>

StatusDial ==
    /\ opcua.status.pc = "connect"
    /\ \E ok \in BOOLEAN :
          opcua' = [opcua EXCEPT !.status = connect_attempt(@, ok)]
    /\ UNCHANGED <<rfidVars, tracking, calls>>

StatusWake ==
    /\ opcua.status.pc = "sleep"
    /\ opcua' = [opcua EXCEPT !.status.pc = "connect"]
    /\ UNCHANGED <<rfidVars, tracking, calls>>

StatusFinish ==
    /\ opcua.status.pc = "operate"
    /\ \E disc_ok \in BOOLEAN :
          /\ ~disc_ok => opcua.status.client
          /\ opcua' = [opcua EXCEPT !.status = status_finish(@, disc_ok)]
    /\ UNCHANGED <<rfidVars, tracking, calls>>

InitPlc ==
    /\ RfidIdle
    /\ opcua = NoOpcua
    /\ tracking = <<>>
    /\ calls = <<>>

NextPlc ==
    \/ OpcuaCall
    \/ OpcuaDial
    \/ OpcuaWake
    \/ OpcuaOperate
    \/ OpcuaFinally
    \/ OpcuaReturn
    \/ StatusCall
    \/ StatusDial
    \/ StatusWake
    \/ StatusFinish

SpecPlc == InitPlc /\ [][NextPlc]_vars

----------------------------------------------------------------------------
(* Properties *)

PushIds == {l \in ListenerIds : lst[l].kind = "push"}
PollIds == {l \in ListenerIds : lst[l].kind = "poll"}

(* a listener whose thread is alive and is connecting, connected or polling *)
Active(l) ==
    \/ lst[l].kind = "push" /\ lst[l].pc \in {"dialing", "open"}
    \/ lst[l].kind = "poll" /\ lst[l].pc = "polling"

(* C1: in every reachable state at most one listener per reader identifier *)
(* is active, across start calls, supervisor restarts and stop calls.      *)
C1_OneActiveListenerPerReader ==
    \A r \in Readers :
        Cardinality({l \in ListenerIds : lst[l].reader = r /\ Active(l)}) <= 1

(* C2: a push listener stopped during its reconnect wait does not dial *)
(* when the wait ends.                                                  *)
C2_StoppedWaitDoesNotDial ==
    [][\A l \in ListenerIds :
          (lst[l].kind = "push" /\ lst[l].pc = "wait" /\ ~lst[l].running)
              => lst'[l].pc \notin {"dialing", "open"}]_vars

(* a push listener that has been stopped and whose connection is closed *)
(* or closing                                                            *)
StoppedAndClosed(rec) ==
    rec.kind = "push" /\ ~rec.running /\ rec.pc \in {"closing", "dead"}

(* C3: stop() on an open push listener sets running = false and closes the *)
(* transport, and from then on the listener stays stopped and closed: the   *)
(* close that follows neither increments reconnect_attempts nor dials.      *)
C3_StopOnOpenIsFinal ==
    [][\A l \in ListenerIds :
          /\ (/\ lst[l].kind = "push" /\ lst[l].pc = "open"
              /\ lst[l].running /\ ~lst'[l].running)
                 => StoppedAndClosed(lst'[l]) /\ lst'[l].pc = "closing"
          /\ StoppedAndClosed(lst[l])
                 => /\ StoppedAndClosed(lst'[l])
                    /\ lst'[l].reconnect_attempts = lst[l].reconnect_attempts
                    /\ lst'[l].waits = lst[l].waits]_vars

(* an open listener was stopped: running is false, the transport is closed *)
(* and on_close has not run yet                                            *)
C3_Witness ==
    \E l \in ListenerIds :
        /\ StoppedAndClosed(lst[l]) /\ lst[l].pc = "closing"
        /\ lst[l].connected

(* the maximum of a cursor and a set of scan identifiers; None, the *)
(* absent cursor, is below every identifier                         *)
MaxCursor(cur, ids) ==
    CHOOSE x \in ids \cup {cur} : \A y \in ids \cup {cur} : y <= x

RespIds(resp) == {resp[i].scan_id : i \in DOMAIN resp} \ {None}

PollOk(l) ==
    /\ lst[l].kind = "poll" /\ lst[l].pc = "polling"
    /\ lst'[l].pc \in {"sleep", "backoff"} /\ lst'[l].lastPoll = "ok"

PollFailed(l) ==
    /\ lst[l].kind = "poll" /\ lst[l].pc = "polling"
    /\ lst'[l].pc \in {"sleep", "backoff"}
    /\ lst'[l].lastPoll \in {"http_error", "request_error"}

(* C4: a poll listener's cursor never decreases, and after each successful *)
(* response it is the maximum of its previous value and the scan           *)
(* identifiers of that response.                                           *)
C4_CursorIsRunningMaximum ==
    [][\A l \in ListenerIds :
          lst[l].kind = "poll" =>
              /\ lst[l].last_scan_id <= lst'[l].last_scan_id
              /\ PollOk(l) =>
                    lst'[l].last_scan_id =
                        MaxCursor(lst[l].last_scan_id, RespIds(lst'[l].resp))]_vars

(* C5: a scan record whose identifier is at or below the cursor is not *)
(* handed to the Scan Processor.                                        *)
C5_OldScansNotDispatched ==
    \A l \in PollIds :
        \A i \in DOMAIN lst[l].disp :
            ~(/\ lst[l].disp[i].scan_id # None
              /\ lst[l].disp[i].before # None
              /\ lst[l].disp[i].scan_id <= lst[l].disp[i].before)

(* C6: a failed poll (request error or non-success status) leaves      *)
(* connected false and the error counter one higher; connected turns   *)
(* true only by a successful poll.                                     *)
C6_FailedPollDisconnects ==
    [][\A l \in ListenerIds :
          /\ PollFailed(l) =>
                /\ ~lst'[l].connected
                /\ lst'[l].error_count = lst[l].error_count + 1
          /\ (lst[l].kind = "poll" /\ ~lst[l].connected /\ lst'[l].connected)
                => PollOk(l)]_vars

(* C7: the sleep after a failed poll is min(2 * poll_interval, 10), the *)
(* sleep after a successful poll is poll_interval.                       *)
C7_BackoffAfterFailedPoll ==
    \A l \in PollIds :
        lst[l].pc \in {"sleep", "backoff"} =>
            /\ lst[l].lastPoll \in {"http_error", "request_error"}
                  => lst[l].sleep = Min(2 * lst[l].poll_interval, 10 * Scale)
            /\ lst[l].lastPoll = "ok" => lst[l].sleep = lst[l].poll_interval

(* C8: the sleeps of consecutive reconnect cycles since the last open are *)
(* d_0 = 1.0, d_{n+1} = min(1.5 * d_n, 60), and 1 <= reconnect_delay <= 60 *)
C8_ReconnectDelaySequence ==
    \A l \in PushIds :
        /\ 1 * Scale <= lst[l].reconnect_delay
        /\ lst[l].reconnect_delay <= 60 * Scale
        /\ \A i \in DOMAIN lst[l].waits :
              IF i = 1
              THEN lst[l].waits[i] = 1 * Scale
              ELSE 2 * lst[l].waits[i]
                      = Min(3 * lst[l].waits[i - 1], 2 * 60 * Scale)
        /\ lst[l].pc = "wait" => lst[l].sleep = lst[l].waits[Len(lst[l].waits)]

(* twelve cycles in a row without an open: the last sleep is the ceiling *)
C8_Witness ==
    \E l \in PushIds :
        /\ lst[l].pc = "wait"
        /\ Len(lst[l].waits) = 12
        /\ lst[l].sleep = 60 * Scale
        /\ lst[l].waits[11] < 60 * Scale

(* C9: reconnect_attempts is the number of reconnect cycles since the last *)
(* successful open: one increment per cycle, and on_open resets it to 0    *)
(* and reconnect_delay to 1.0.                                             *)
C9_AttemptsCountCycles ==
    \A l \in PushIds :
        /\ lst[l].reconnect_attempts = Len(lst[l].waits)
        /\ lst[l].pc = "open" =>
              lst[l].reconnect_attempts = 0 /\ lst[l].reconnect_delay = 1 * Scale

(* two reconnect cycles in a row without an open, each after a failure *)
C9_Witness ==
    \E l \in PushIds :
        /\ lst[l].pc = "wait"
        /\ lst[l].reconnect_attempts = 2
        /\ lst[l].error_count > 2

(* a reader start_rfid_reader_listener would start a listener for *)
Configured(r) ==
    \E i \in DOMAIN readers_config(config) :
        /\ readers_config(config)[i].id = r
        /\ readers_config(config)[i].url # "none"

(* monitor m handles the snapshot entry it is at *)
Handles(m) == AtEntry(m) /\ mon'[m] # mon[m]

(* the step of monitor m ends in the except branch *)
MonRaised(m) == mon'[m].errors # mon[m].errors

(* the listener of the snapshot entry is still the registered one *)
Registered(m) ==
    /\ RegHas(active_listeners, Entry(m).reader)
    /\ RegGet(active_listeners, Entry(m).reader) = Entry(m).lid

(* C10: when a registered listener's thread is dead and its reader is still *)
(* configured, the supervision pass removes the dead entry, starts and      *)
(* registers a new listener for the reader, and emits the 'connection lost' *)
(* alert, not the 'excessive errors' one.                                   *)
C10_DeadListenerRestarted ==
    [][\A m \in MonitorIds :
          (/\ Handles(m)
           /\ ~is_alive(lst[Entry(m).lid])
           /\ Configured(Entry(m).reader))
              => LET r == Entry(m).reader
                 IN  /\ Entry(m).lid \notin RegIds(active_listeners')
                     /\ RegHas(active_listeners', r)
                     /\ lst[RegGet(active_listeners', r)].kind = "none"
                     /\ is_alive(lst'[RegGet(active_listeners', r)])
                     /\ <<r, "connection lost">> \in alerts'
                     /\ <<r, "excessive errors">> \notin alerts' \ alerts]_vars

(* the same for the readers listed in RFID_READERS only, when nothing *)
(* in the pass raises                                                 *)
C10_ListedReaderRestarted ==
    [][\A m \in MonitorIds :
          (/\ Handles(m)
           /\ ~MonRaised(m)
           /\ ~is_alive(lst[Entry(m).lid])
           /\ in_RFID_READERS(config, Entry(m).reader))
              => LET r == Entry(m).reader
                 IN  /\ Entry(m).lid \notin RegIds(active_listeners')
                     /\ RegHas(active_listeners', r)
                     /\ lst[RegGet(active_listeners', r)].kind = "none"
                     /\ is_alive(lst'[RegGet(active_listeners', r)])
                     /\ <<r, "connection lost">> \in alerts'
                     /\ <<r, "excessive errors">> \notin alerts' \ alerts]_vars

C12_InactivityAlertOnly ==
    [][\A m \in MonitorIds :
          (/\ Handles(m) /\ ~MonRaised(m)
           /\ is_alive(lst[Entry(m).lid]) /\ Registered(m)
           /\ lst[Entry(m).lid].error_count <= 50
           /\ mon'[m].status.inactivity_seconds > 1800)
              => /\ alerts' = alerts \cup {<<Entry(m).reader, "inactive">>}
                 /\ lst' = lst
                 /\ active_listeners' = active_listeners
                 /\ mon'[m].pc = "iter"
                 /\ mon'[m].i = mon[m].i + 1]_vars

(* the pass has seen a running listener with 50 errors, inactive for *)
(* 1801, and has alerted                                              *)
C12_Witness ==
    \E m \in MonitorIds :
        /\ mon[m].pc = "iter" /\ mon[m].i > 1
        /\ mon[m].status = [error_count |-> 50, inactivity_seconds |-> 1801]
        /\ LET e == mon[m].snap[mon[m].i - 1]
           IN  /\ <<e.reader, "inactive">> \in alerts
               /\ lst[e.lid].running
               /\ RegHas(active_listeners, e.reader)
               /\ RegGet(active_listeners, e.reader) = e.lid

(* C13: a monitor thread never terminates: an exception raised inside a *)
(* pass puts it in the 60 back-off, and from the back-off it takes a    *)
(* fresh snapshot of active_listeners and health-checks again.          *)
C13_MonitorNeverTerminates ==
    [][\A m \in MonitorIds :
          /\ mon[m].pc # "none" => mon'[m].pc \notin {"none", "dead"}
          /\ MonRaised(m)
                => mon'[m].pc = "backoff" /\ monitor_sleep(mon'[m]) = 60
          /\ (mon[m].pc = "backoff" /\ mon'[m] # mon[m])
                => /\ mon'[m].pc = "iter" /\ mon'[m].i = 1
                   /\ mon'[m].snap = active_listeners]_vars

(* a monitor that caught an exception is health-checking again *)
C13_Witness ==
    \E m \in MonitorIds :
        /\ mon[m].errors > 0
        /\ mon[m].pc = "iter" /\ mon[m].i > 1

(* C14: stop_all_rfid_listeners returns normally, having called stop() *)
(* on every registered listener, and leaves active_listeners empty,   *)
(* on the first call and on every later one.                          *)
C14_StopAllStopsAndClears ==
    [][(stopper.pc = "iter" /\ stopper'.pc # "iter")
          => /\ stopper'.pc = "done"
             /\ active_listeners' = <<>>
             /\ RegIds(stopper.reg0) \subseteq stopper.seen
             /\ RegIds(active_listeners) \subseteq stopper.seen]_vars

(* what a batch must produce: the matched and the unmatched tags in input *)
(* order, the items and the tracking rows of the matched ones             *)
Known(t) == t \in DOMAIN ProductTable

Unknown(t) == t \notin DOMAIN ProductTable

MatchedTags(tags) == SelectSeq(tags, Known)

UnknownTags(tags) == SelectSeq(tags, Unknown)

ExpectedItems(tags) ==
    [i \in 1 .. Len(MatchedTags(tags)) |-> ProductTable[MatchedTags(tags)[i]]]

ExpectedRows(tags, b) ==
    [i \in 1 .. Len(MatchedTags(tags)) |->
        [rfid_tag |-> MatchedTags(tags)[i],
         product_id |-> ProductTable[MatchedTags(tags)[i]].product_id,
         status |-> "scanned", batch |-> b]]

ExpectedResults(tags) ==
    [processed |-> Len(MatchedTags(tags)), unknown_tags |-> UnknownTags(tags),
     items |-> ExpectedItems(tags)]

(* the rows of batch b visible in the store *)
BatchRows(b) == LET OfBatch(r) == r.batch = b IN SelectSeq(tracking, OfBatch)

(* C15: when process_rfid_scan returns, processed is the number of tags   *)
(* that map to a product, unknown_tags the unmatched tags in input order, *)
(* items the matched products in input order, processed = |items|,        *)
(* processed + |unknown_tags| = |tags|, and the store holds exactly one   *)
(* 'scanned' record per matched tag of the batch and none for the others. *)
C15_ScanResultAndRecords ==
    \A c \in CallerIds :
        calls.frame[c].pc = "returned" =>
            LET f == calls.frame[c]
                tags == f.rfid_tags
            IN  /\ f.results.processed = Len(MatchedTags(tags))
                /\ f.results.unknown_tags = UnknownTags(tags)
                /\ f.results.items = ExpectedItems(tags)
                /\ f.results.processed = Len(f.results.items)
                /\ f.results.processed + Len(f.results.unknown_tags) = Len(tags)
                /\ BatchRows(f.batch) = ExpectedRows(tags, f.batch)

(* [A, B, C] with B unknown: processed 2, unknown [B], two records *)
C15_Witness ==
    \E c \in CallerIds :
        /\ calls.frame[c].pc = "returned"
        /\ calls.frame[c].rfid_tags = <<"A", "B", "C">>
        /\ calls.frame[c].results.processed = 2
        /\ calls.frame[c].results.unknown_tags = <<"B">>
        /\ Len(BatchRows(calls.frame[c].batch)) = 2

(* C16: the records of a batch become visible all at once, by its commit: *)
(* a batch that has not committed, because the store rejected it or the   *)
(* call failed earlier, has no record in the store, whatever the same     *)
(* caller does afterwards; a committed batch has them all.                *)
C16_BatchAllOrNothing ==
    \A b \in DOMAIN calls.history :
        IF calls.history[b].outcome = "committed"
        THEN BatchRows(b) = ExpectedRows(calls.history[b].rfid_tags, b)
        ELSE BatchRows(b) = <<>>

(* a batch with matched tags failed, and a later batch of the same caller *)
(* has committed its records                                              *)
C16_Witness ==
    \E b1, b2 \in DOMAIN calls.history :
        /\ b1 < b2
        /\ calls.history[b1].caller = calls.history[b2].caller
        /\ calls.history[b1].outcome = "failed"
        /\ MatchedTags(calls.history[b1].rfid_tags) # <<>>
        /\ calls.history[b2].outcome = "committed"
        /\ BatchRows(b2) # <<>>

(* C17: with calls running concurrently, the store changes only by the  *)
(* commit of one call, which appends the whole batch of that call and   *)
(* nothing else, and the result a call returns is the one its own tag   *)
(* list and the products table determine.                               *)
C17_ConcurrentBatchesIndependent ==
    [][/\ tracking' # tracking
          => \E c \in CallerIds :
                 /\ calls.frame[c].pc = "loop"
                 /\ calls'.frame[c].pc = "returned"
                 /\ tracking' = tracking \o ExpectedRows(calls.frame[c].rfid_tags,
                                                         calls.frame[c].batch)
       /\ \A c \in CallerIds :
             (calls.frame[c].pc = "loop" /\ calls'.frame[c].pc = "returned")
                 => /\ calls'.frame[c].results
                          = ExpectedResults(calls.frame[c].rfid_tags)
                    /\ \A d \in CallerIds \ {c} :
                          calls'.frame[d] = calls.frame[d]]_vars

(* a call has committed its batch while a call that began earlier is *)
(* still in its loop with a pending record                           *)
C17_Witness ==
    \E c, d \in CallerIds :
        /\ calls.frame[c].pc = "returned"
        /\ BatchRows(calls.frame[c].batch) # <<>>
        /\ calls.frame[d].pc = "loop"
        /\ calls.frame[d].batch < calls.frame[c].batch
        /\ calls.frame[d].session # <<>>

(* a node address of the form ns=<non-empty>;s=<non-empty> *)
ValidNodeId(node_id) == node_id \in {"ns=2;s=ItemCount", "ns=2;s=HMIStatus"}

(* C18: a call with a node address that is not of the form              *)
(* ns=<non-empty>;s=<non-empty> dials nothing and touches no node, and  *)
(* its result is the 'Invalid node ID format' error.                    *)
C18_InvalidNodeIdRejectedFirst ==
    (opcua.frame.pc # "idle" /\ ~ValidNodeId(opcua.frame.node_id))
        => /\ opcua.frame.dials = 0
           /\ opcua.frame.node_ops = 0
           /\ opcua.frame.pc = "done"
                 => opcua.frame.result = OpcuaError("Invalid node ID format")

C20_AtMostOneDialWhileConnected ==
    opcua.failures = 0 => opcua.dials <= 1

(* a call is inside a connect sequence: dialing or between two dials *)
InConnectSequence(f) == f.pc \in {"connect", "sleep"}

(* the connections to the PLC that exist *)
Connections == opcua.open + (IF opcua.status.connected THEN 1 ELSE 0)

(* C21: at any time at most one call is inside a connect sequence and *)
(* at most one connection to the PLC exists.                          *)
C21_ConnectSerialized ==
    /\ ~(InConnectSequence(opcua.frame) /\ InConnectSequence(opcua.status))
    /\ Connections <= 1

(* C22: the handle a call holds is present exactly when its connection *)
(* is up: absent before the connect, present after a successful dial,  *)
(* absent again after the disconnect and after exhausted retries.      *)
C22_HandleIffConnected ==
    \A f \in {opcua.frame, opcua.status} : f.client <=> f.connected

NodeOpDone(op) ==
    /\ opcua.frame.pc = "operate" /\ opcua.frame.op = op
    /\ opcua'.frame.pc = "finally" /\ opcua'.frame.fault = "none"

(* C24: a write on a valid address that the PLC accepts returns the     *)
(* success message and leaves the node at the written value; a read     *)
(* returns the node's current value; and the nodes change in no other   *)
(* step, so a read that follows a write of v with no write in between   *)
(* returns v.                                                           *)
C24_WriteThenReadReturnsWritten ==
    [][/\ NodeOpDone("write")
            => /\ opcua'.frame.result = OpcuaMessage("Value written successfully")
               /\ opcua'.plc = [opcua.plc EXCEPT ![opcua.frame.node_id] =
                                                     opcua.frame.value]
       /\ NodeOpDone("read")
            => opcua'.frame.result = OpcuaValue(opcua.plc[opcua.frame.node_id])
       /\ opcua'.plc # opcua.plc => NodeOpDone("write")]_vars

(* a read has returned the 10 that the call before it wrote *)
C24_Witness ==
    /\ opcua.frame.pc = "done"
    /\ opcua.frame.op = "read"
    /\ opcua.frame.node_id = "ns=2;s=ItemCount"
    /\ opcua.frame.result = OpcuaValue(10)
    /\ opcua.frame.plc0["ns=2;s=ItemCount"] = 10

(* the step in which push listener l handles a frame of the given kind *)
HandlesFrame(l, kinds) ==
    /\ lst[l].kind = "push" /\ lst[l].pc = "open"
    /\ Len(calls'.frames) = Len(calls.frames) + 1
    /\ calls'.frames[Len(calls'.frames)].kind \in kinds

(* C25: a malformed frame on an open push listener adds exactly one to    *)
(* error_count and nothing else happens: the listener stays open,         *)
(* connected and running, with no reconnect attempt and no wait, no       *)
(* processing thread is started and no call of the Scan Processor made.   *)
C25_MalformedFrameDropped ==
    [][\A l \in ListenerIds :
          HandlesFrame(l, {"malformed"})
              => /\ lst'[l] = [lst[l] EXCEPT !.error_count = @ + 1,
                                             !.disp = <<>>]
                 /\ lst'[l].pc = "open"
                 /\ calls'.threads = calls.threads
                 /\ calls'.history = calls.history
                 /\ tracking' = tracking]_vars

(* after a malformed frame the listener has handled a scan frame and *)
(* started its processing thread                                     *)
C25_Witness ==
    /\ Len(calls.frames) >= 2
    /\ calls.frames[1].kind = "malformed"
    /\ calls.frames[2] = [kind |-> "scan", rfid_tags |-> <<"T1", "T2">>]
    /\ Len(calls.threads) = 1
    /\ \E l \in ListenerIds :
          lst[l].kind = "push" /\ lst[l].pc = "open" /\ lst[l].error_count = 1

(* the frames handled so far that are scan events with a non-empty tag list *)
ScanFrames ==
    SelectSeq(calls.frames,
              LAMBDA f : f.kind = "scan" /\ f.rfid_tags # <<>>)

(* the calls of process_rfid_scan that thread t has made *)
Invocations(t) ==
    {b \in DOMAIN calls.history : calls.history[b].caller = t}

(* C26: on a push listener the processing threads are exactly the scan   *)
(* frames with a non-empty tag list, in order, each with the listener's  *)
(* reader id and the frame's tag list; and a thread that has got past    *)
(* its start has called process_rfid_scan exactly once with that list.   *)
C26_OneInvocationPerScanFrame ==
    (\E l \in ListenerIds : lst[l].kind = "push")
        => /\ Len(calls.threads) = Len(ScanFrames)
           /\ \A t \in DOMAIN calls.threads :
                 /\ calls.threads[t].rfid_tags = ScanFrames[t].rfid_tags
                 /\ calls.threads[t].reader_id = lst[calls.threads[t].owner].reader
                 /\ calls.threads[t].pc # "spawned"
                       => /\ Cardinality(Invocations(t)) = 1
                          /\ \A b \in Invocations(t) :
                                calls.history[b].rfid_tags
                                    = calls.threads[t].rfid_tags

(* a batch of listener l is inside process_rfid_scan: at a query or at *)
(* the commit                                                          *)
BatchInStore(l) ==
    \E t \in DOMAIN calls.threads :
        /\ calls.threads[t].owner = l
        /\ calls.threads[t].pc = "processing"
        /\ calls.frame[t].pc = "loop"

C28_SingleWriterOfErrorCount ==
    [][\A l \in ListenerIds :
          lst'[l].error_count # lst[l].error_count
              => \A t \in DOMAIN calls.threads :
                    calls'.threads[t].pc = calls.threads[t].pc]_vars

(* the monitor threads that have been started; none of them ends *)
MonitorsRunning ==
    Cardinality({m \in MonitorIds : mon[m].pc # "none"}) + mon[0].untracked

(* C29: at most one monitor thread exists at any time, and none when *)
(* FLASK_ENV is not 'production'.                                    *)
C29_AtMostOneSupervisor ==
    /\ MonitorsRunning <= 1
    /\ config.FLASK_ENV # "production" => MonitorsRunning = 0

(* the readers start_rfid_reader_listener works from *)
StartReaders == readers_config(config)

(* reader c has an alive listener in active_listeners *)
HasAlive(c) ==
    /\ RegHas(active_listeners, c.id)
    /\ is_alive(lst[RegGet(active_listeners, c.id)])

(* reader c is due a listener: it has a url and no alive listener *)
Due(c) == c.url # "none" /\ ~HasAlive(c)

(* C30: a call of start_rfid_reader_listener starts, for every configured *)
(* reader that has a url and no alive listener, exactly one new listener  *)
(* and records it under the reader id: a push listener for a ws:// or     *)
(* wss:// url, otherwise a poll listener with the configured polling      *)
(* interval or 2.0; a reader with an alive listener keeps it, a reader    *)
(* without a url gets none, and no existing listener is touched.          *)
C30_StartOneListenerPerReader ==
    [][startCalls' = startCalls + 1
          => /\ \A i \in DOMAIN StartReaders :
                   LET c == StartReaders[i]
                   IN  /\ c.url = "none" => ~RegHas(active_listeners', c.id)
                       /\ (c.url # "none" /\ HasAlive(c))
                             => RegGet(active_listeners', c.id)
                                    = RegGet(active_listeners, c.id)
                       /\ Due(c)
                             => /\ RegHas(active_listeners', c.id)
                                /\ LET l == RegGet(active_listeners', c.id)
                                   IN  /\ lst[l].kind = "none"
                                       /\ lst'[l].reader = c.id
                                       /\ lst'[l].pc = "started"
                                       /\ lst'[l].kind
                                             = IF c.url = "ws" THEN "push"
                                                               ELSE "poll"
                                       /\ c.url # "ws"
                                             => lst'[l].poll_interval
                                                  = IF c.polling_interval = None
                                                    THEN 2 * Scale
                                                    ELSE c.polling_interval
             /\ Allocated(lst') = Allocated(lst)
                   + Cardinality({i \in DOMAIN StartReaders : Due(StartReaders[i])})
             /\ \A l \in ListenerIds : lst[l].kind # "none" => lst'[l] = lst[l]
             /\ \A i \in DOMAIN active_listeners' :
                   \E j \in DOMAIN StartReaders :
                       StartReaders[j].id = active_listeners'[i].reader]_vars

(* the second call has replaced the dead listener of 'entrance' *)
C30_Witness ==
    /\ startCalls = 2
    /\ lst[1].reader = "entrance" /\ lst[1].pc = "dead"
    /\ RegHas(active_listeners, "entrance")
    /\ RegGet(active_listeners, "entrance") = 2
    /\ lst[2].kind = "push" /\ lst[2].pc = "started"

(* C31: a call makes at most one get_value / set_value attempt and at  *)
(* most one successful connect; when get_node or the value operation   *)
(* fails after a successful connect, the call goes on to its finally   *)
(* block and returns an error value, with no second attempt and no     *)
(* second dial.                                                        *)
C31_NodeFailureNotRetried ==
    LET f == opcua.frame
    IN  /\ f.value_ops <= 1
        /\ f.node_ops <= 2
        /\ f.dials - f.failed <= 1
        /\ f.fault \in {"get_node", "node"}
              => /\ f.pc \in {"finally", "returning", "done"}
                 /\ f.result.kind = "error"
                 /\ f.dials - f.failed = 1
                 /\ f.value_ops = (IF f.fault = "node" THEN 1 ELSE 0)

(* a write that the PLC refused after a successful connect has returned *)
(* its error after one set_value                                        *)
C31_Witness ==
    /\ opcua.frame.pc = "done"
    /\ opcua.frame.op = "write"
    /\ opcua.frame.fault = "node"
    /\ opcua.frame.dials - opcua.frame.failed = 1
    /\ opcua.frame.value_ops = 1
    /\ opcua.frame.result = OpcuaError("exception")

(* C38: a call that has established a connection runs                   *)
(* client.disconnect() on it exactly once, in its finally block, before *)
(* it returns, after a node operation that succeeded and after one that *)
(* failed; a call that established none disconnects nothing; and the    *)
(* finally block, whatever the disconnect does, leaves the result as    *)
(* the try or except block set it, which is what the call returns.      *)
C38_ConnectionClosedExactlyOnce ==
    [][LET f == opcua.frame
           g == opcua'.frame
           established == g.dials - g.failed
       IN  /\ g.discs > f.discs
                => /\ f.pc = "finally" /\ f.connected
                   /\ g.discs = 1
                   /\ opcua'.open = opcua.open - 1
           /\ (f.pc = "finally" /\ g.pc = "returning")
                => /\ g.result = f.result
                   /\ g.discs = established
                   /\ ~g.connected
           /\ (f.pc = "returning" /\ g.pc = "done")
                => /\ g.result = f.result
                   /\ g.discs = established
                   /\ established <= 1
                   /\ ~g.connected
                   /\ opcua'.open = 0]_vars

(* a read that got its value has returned it although                *)
(* client.disconnect() raised                                        *)
C38_Witness ==
    /\ opcua.frame.pc = "done"
    /\ opcua.frame.op = "read"
    /\ opcua.frame.fault = "none"
    /\ opcua.frame.dials - opcua.frame.failed = 1
    /\ opcua.frame.discs = 1
    /\ opcua.frame.disc = "failed"
    /\ opcua.frame.result = OpcuaValue(10)

(* monitor m takes a step in which send_alert logs an alert, posts one *)
(* or logs a failed delivery                                           *)
Emits(m) ==
    /\ mon[m].pc \in {"iter", "wait"}
    /\ mon'[m] # mon[m]
    /\ alerts' # alerts \/ webhook' # webhook

(* C32: a supervision step that emits an alert does not end in the     *)
(* except branch: the pass goes on with the next entry of its          *)
(* snapshot, whether the delivery succeeded, failed or was not         *)
(* attempted; every message posted or failed to deliver is among the   *)
(* logged alerts; nothing is posted when no alert sink is configured;  *)
(* and a restart after excessive errors always logs its alert.         *)
C32_AlertNeverFailsCaller ==
    [][\A m \in MonitorIds :
          /\ Emits(m)
                => /\ mon'[m].errors = mon[m].errors
                   /\ mon'[m].pc = "iter"
                   /\ mon'[m].i = mon[m].i + 1
                   /\ mon'[m].snap = mon[m].snap
                   /\ alerts \subseteq alerts'
                   /\ (webhook'.posts \cup webhook'.failed) \subseteq alerts'
                   /\ webhook'.posts # webhook.posts
                         => config.ALERT_WEBHOOK_URL # "none"
                   /\ config.ALERT_WEBHOOK_URL = "none" => webhook'.posts = {}
          /\ (mon[m].pc = "wait" /\ mon'[m].pc = "iter")
                => <<Entry(m).reader, "excessive errors">> \in alerts']_vars

(* with an alert sink configured, the delivery of the 'excessive errors' *)
(* alert failed and the monitor, which has caught no exception, is at    *)
(* the next entry of its pass                                            *)
C32_Witness ==
    \E m \in MonitorIds :
        /\ config.ALERT_WEBHOOK_URL = "hook"
        /\ mon[m].errors = 0
        /\ mon[m].pc = "iter" /\ mon[m].i = 2
        /\ mon[m].snap[1].reader = "entrance"
        /\ <<"entrance", "excessive errors">> \in alerts
        /\ <<"entrance", "excessive errors">> \in webhook.failed
        /\ webhook.posts = {}

(* C36: while a connection loop of a push listener runs, no close       *)
(* handler is on the stack of its thread: the handler of each reconnect *)
(* cycle has returned before the next connection loop starts, so the    *)
(* nesting does not grow with the number of reconnect cycles.           *)
C36_ReconnectDoesNotNest ==
    \A l \in PushIds :
        lst[l].pc \in {"dialing", "open"} => lst[l].depth = 0

(* C33: for a push listener that has not been stopped, every loss of  *)
(* the connection is eventually followed by a new dial attempt,       *)
(* however many losses came before it.                                *)
C33_ReconnectLiveness ==
    \A l \in ListenerIds :
        (lst[l].kind = "push" /\ lst[l].pc = "closing" /\ lst[l].running)
            ~> (lst[l].pc = "dialing")

(* C34: once stop_all_rfid_listeners has returned, active_listeners  *)
(* stays empty and no listener is constructed or started, whatever a *)
(* monitor thread was in the middle of.                              *)
C34_ShutdownIsFinal ==
    [][stopper.pc = "done"
          => /\ active_listeners' = <<>>
             /\ \A l \in ListenerIds :
                   lst[l].kind = "none" => lst'[l].kind = "none"]_vars

(* C35: a reader listed in RFID_READERS with a url that is in         *)
(* active_listeners is, from then on, in active_listeners again and   *)
(* again: a supervision pass that removes its listener re-registers   *)
(* it, in the same pass or in a later one, also when the restart step *)
(* raised.                                                            *)
C35_RestartNeverLosesReader ==
    \A r \in Readers :
        []((/\ RegHas(active_listeners, r)
            /\ in_RFID_READERS(config, r)
            /\ Configured(r))
               => []<>RegHas(active_listeners, r))

(* stop() has been called on listener l by the stop_all_rfid_listeners *)
(* call in progress                                                    *)
StopCalled(l) == l \in stopper.seen

(* C37: once stop() has been called on a listener its running flag is *)
(* false and stays false, and its thread starts no dial and no poll,  *)
(* also when the thread was started and run() had not begun.          *)
C37_StopIsFinal ==
    [][\A l \in ListenerIds :
          StopCalled(l)
              => /\ ~lst[l].running
                 /\ ~lst'[l].running
                 /\ lst'[l].pc \in {"dialing", "polling"}
                       => lst'[l].pc = lst[l].pc]_vars

==============================================================================
